---- MODULE Spec2Model ----
(***************************************************************************)
(* Model of the /chat conversation router and plan lifecycle of            *)
(* backend/routers/chat.py.                                                *)
(*                                                                         *)
(* One user is modelled.  `bucket` is that user's entry of user_state.json *)
(* (which top-level keys it holds, and their values); every /chat request  *)
(* is one atomic action: load, shape repair, confidence capture, routing,  *)
(* handler, save.  A message is the sequence of its lower-cased words; the *)
(* regular expressions of the intent lists are of the form \bw1 w2 ..\b    *)
(* and are modelled as contiguous word sequences.                          *)
(***************************************************************************)
EXTENDS Integers, Sequences, FiniteSets, TLC

(* ------------------------------ bounds -------------------------------- *)
MaxTurns == 3       \* number of /chat requests explored per behaviour
MaxPlans == 2       \* number of plan objects the plans dict may hold

(* ----------------------------- vocabulary ------------------------------ *)
NoTopic == "none"               \* Python None for a topic
NoId    == 0                    \* Python None for a plan id
NoVal   == -1                   \* key absent in a confidence entry
NoText  == << >>                \* key absent in discovery_answers

Topics    == {"interview_confidence", "work_focus"}
\* values the optional request field `topic` takes
ReqTopics == Topics \cup {NoTopic, "Work Focus"}

Messages ==
  { <<"help", "me">>,                \* plan request
    <<"new", "plan">>,               \* new plan (and plan request)
    <<"no", "plan">>,                \* skip (and plan request)
    <<"skip", "new", "plan">>,       \* skip and new plan
    <<"adjust">>,                    \* refine
    <<"hello", "help", "me">>,       \* greeting followed by a plan request
    <<"soon">>,                      \* free text
    <<"both">>,                      \* free text
    <<"7">>,                         \* bare number
    <<"3", "/", "10">> }             \* N/10

(* --------------------------- intent patterns --------------------------- *)
_NEW_PLAN_PATTERNS ==
  { <<"new", "plan">>, <<"create", "a", "new", "plan">>,
    <<"make", "a", "new", "plan">>, <<"start", "over">>, <<"restart">>,
    <<"redo">>, <<"re-do">>, <<"replace", "the", "plan">>,
    <<"this", "plan", "doesn't", "work">>, <<"this", "plan", "doesnt", "work">>,
    <<"this", "plan", "does", "not", "work">> }

_PLAN_REQUEST_PATTERNS ==
  { <<"plan">>, <<"roadmap">>, <<"schedule">>, <<"prep">>, <<"prepare">>,
    <<"help", "me">>, <<"organize">>, <<"game", "plan">> }

_REFINE_PATTERNS ==
  { <<"adjust">>, <<"refine">>, <<"edit">>, <<"update">>, <<"shorter">>,
    <<"longer">>, <<"focus", "on">>, <<"add">>, <<"remove">>, <<"change">>,
    <<"revise">> }

_SKIP_PATTERNS ==
  { <<"skip">>, <<"just", "chat">>, <<"no", "plan">>, <<"stop">>,
    <<"not", "now">> }

\* re.search(p, t): pattern p occurs in text as a run of whole words
Occurs(p, text) ==
  \E i \in 1..Len(text) :
     /\ i + Len(p) - 1 <= Len(text)
     /\ \A j \in 1..Len(p) : text[i + j - 1] = p[j]

_matches_any(text, patterns) == \E p \in patterns : Occurs(p, text)

explicit_new_plan_request(user_text) == _matches_any(user_text, _NEW_PLAN_PATTERNS)
plan_requested(user_text)            == _matches_any(user_text, _PLAN_REQUEST_PATTERNS)
refine_requested(user_text)          == _matches_any(user_text, _REFINE_PATTERNS)
skip_requested(user_text)            == _matches_any(user_text, _SKIP_PATTERNS)

\* strip, lower, runs of characters outside [a-z0-9_] become one "_"
normalize_topic_key(topic) ==
  CASE topic = NoTopic      -> NoTopic
    [] topic = "Work Focus" -> "work_focus"
    [] OTHER                -> topic

(* ------------------------------ state ---------------------------------- *)
NoConf == [baseline |-> NoVal, last |-> NoVal]

DEFAULT_STATE ==
  [ mode       |-> "CHAT",
    plan_build |-> [ step |-> "DISCOVERY",
                     topic |-> NoTopic,
                     discovery_questions_asked |-> 0,
                     discovery_answers |-> [deadline |-> NoText, target |-> NoText],
                     active_plan_id |-> NoId,
                     locked |-> FALSE ],
    plans      |-> << >>,
    confidence |-> [t \in Topics |-> NoConf] ]

TopKeys == {"mode", "plan_build", "plans", "metrics"}

VARIABLES
  bucket,   \* the user's stored entry: [keys, mode, plan_build, plans, confidence]
  pre,      \* the state the last request started from (after shape repair)
  mem,      \* the in-memory state at the end of the last request
  req,      \* the last request: [message, topic]
  resp,     \* what the last request did and returned
  turns,    \* number of requests made
  asked,    \* history: how often each discovery question was emitted since
            \*          the last draft (counted up to 2)
  script,   \* history: position in the dialogue "plan request, answer, answer"
  firstNum, \* history: per topic, the first confidence number a completed
            \*          request carried
  gate,     \* a call of should_create_new_plan: its arguments and its result
  hist,     \* history and follow-up of the user: the file, the clock, the last request
  race,     \* user_state.json of several users, and the requests made on it
  gem,      \* a call of gemini_text: the models' answers and the loop position
  built,    \* a call of build_plan_object: its arguments and its result
  notify,   \* users_activity.json, the clock and the last /notify request
  capture,  \* a call of maybe_capture_confidence: its arguments and its result
  extracted, \* a call of extract_bullets: its arguments and its result
  edited,   \* the tasks of a plan, and the edits of a refine turn applied to them
  statefile, \* user_state.json as a request finds it, and what the request made of it
  reply,    \* a call of handle_chat: the state, the model's reply and the result
  disk,     \* the data directory while several requests save: names, files, writers
  overlap,  \* users_activity.json while a run of run_checkins is between load and save
  shape     \* a call of _ensure_state_shape: its argument and its results

chatVars == <<bucket, pre, mem, req, resp, turns, asked, script, firstNum>>
vars == <<bucket, pre, mem, req, resp, turns, asked, script, firstNum, gate,
          hist, race, gem, built, notify,
          capture, extracted, edited, statefile, reply, disk, overlap, shape>>

\* the value of a variable that the specification at hand does not use
Idle == "idle"
callVars == <<capture, extracted, edited, statefile, reply, disk, overlap, shape>>
CallsIdle ==
  capture = Idle /\ extracted = Idle /\ edited = Idle /\ statefile = Idle /\ reply = Idle /\ disk = Idle /\ overlap = Idle /\ shape = Idle

(* --------------------------- state store ------------------------------- *)
\* merged = copy of DEFAULT_STATE; merged[k] = v for every stored key.  The
\* values of stored keys are the stored objects themselves (shared), the
\* others are fresh copies of the defaults.
_ensure_state_shape(b) ==
  [ mode       |-> IF "mode" \in b.keys THEN b.mode ELSE DEFAULT_STATE.mode,
    plan_build |-> IF "plan_build" \in b.keys THEN b.plan_build
                   ELSE DEFAULT_STATE.plan_build,
    plans      |-> IF "plans" \in b.keys THEN b.plans ELSE DEFAULT_STATE.plans,
    confidence |-> IF "metrics" \in b.keys THEN b.confidence
                   ELSE DEFAULT_STATE.confidence ]

\* What _save_all_state(all_state) writes for the user.  all_state still holds
\* the bucket returned by _get_user_bucket, not the repaired copy: a stored
\* key whose value is a dict has received the handler's in-place changes, a
\* rebound top-level key ("mode") and every key the bucket lacked have not.
_save_all_state(b, st) ==
  [ keys       |-> b.keys,
    mode       |-> b.mode,
    plan_build |-> IF "plan_build" \in b.keys THEN st.plan_build ELSE b.plan_build,
    plans      |-> IF "plans" \in b.keys THEN st.plans ELSE b.plans,
    confidence |-> IF "metrics" \in b.keys THEN st.confidence ELSE b.confidence ]

(* ------------------------- confidence capture -------------------------- *)
\* int() of a one- or two-digit word; NoVal for any other word
IntOfWord(w) ==
  CASE w = "0" -> 0 [] w = "1" -> 1 [] w = "3" -> 3 [] w = "7" -> 7
    [] w = "10" -> 10 [] w = "11" -> 11 [] w = "99" -> 99 [] OTHER -> NoVal

\* re.fullmatch(r"(\d{1,2})(?:\s*/\s*10)?", t): the captured number, or NoVal
ConfidenceMatch(user_text) ==
  IF Len(user_text) = 1 THEN IntOfWord(user_text[1])
  ELSE IF Len(user_text) = 3 /\ user_text[2] = "/" /\ user_text[3] = "10"
       THEN IntOfWord(user_text[1])
       ELSE NoVal

\* returns [st, saved]
maybe_capture_confidence(st, user_text, topic_key) ==
  LET val == ConfidenceMatch(user_text) IN
  IF val = NoVal \/ val < 0 \/ val > 10
  THEN [st |-> st, saved |-> FALSE]
  ELSE LET conf == st.confidence[topic_key]
           new  == [ baseline |-> IF conf.baseline = NoVal THEN val ELSE conf.baseline,
                     last     |-> val ]
       IN [ st    |-> [st EXCEPT !.confidence[topic_key] = new],
            saved |-> TRUE ]

(* ------------------------------ router --------------------------------- *)
DISCOVERY_QUESTIONS == << "deadline?", "target?" >>

NoStep == "none"

has_active_plan(st, topic_key) ==
  st.plan_build.active_plan_id # NoId /\ st.plan_build.topic = topic_key

\* variant: discovery goes on while the counter is at most two
decide_mode_and_step_one_more_question(st, user_text, topic_key) ==
  IF skip_requested(user_text) THEN <<"CHAT", NoStep>>
  ELSE IF explicit_new_plan_request(user_text) THEN <<"PLAN_BUILD", "DRAFT">>
  ELSE IF refine_requested(user_text) /\ has_active_plan(st, topic_key)
       THEN <<"PLAN_BUILD", "REFINE">>
  ELSE IF plan_requested(user_text)
       THEN IF has_active_plan(st, topic_key) THEN <<"CHAT", NoStep>>
            ELSE <<"PLAN_BUILD", "DISCOVERY">>
  ELSE IF /\ st.mode = "PLAN_BUILD"
          /\ st.plan_build.step = "DISCOVERY"
          /\ st.plan_build.discovery_questions_asked <= Len(DISCOVERY_QUESTIONS)
       THEN <<"PLAN_BUILD", "DISCOVERY">>
  ELSE <<"CHAT", NoStep>>

\* variant: new-plan wording is tested before skip wording
decide_mode_and_step_new_plan_first(st, user_text, topic_key) ==
  IF explicit_new_plan_request(user_text) THEN <<"PLAN_BUILD", "DRAFT">>
  ELSE IF skip_requested(user_text) THEN <<"CHAT", NoStep>>
  ELSE IF refine_requested(user_text) /\ has_active_plan(st, topic_key)
       THEN <<"PLAN_BUILD", "REFINE">>
  ELSE IF plan_requested(user_text)
       THEN IF has_active_plan(st, topic_key) THEN <<"CHAT", NoStep>>
            ELSE <<"PLAN_BUILD", "DISCOVERY">>
  ELSE IF /\ st.mode = "PLAN_BUILD"
          /\ st.plan_build.step = "DISCOVERY"
          /\ st.plan_build.discovery_questions_asked < Len(DISCOVERY_QUESTIONS)
       THEN <<"PLAN_BUILD", "DISCOVERY">>
  ELSE <<"CHAT", NoStep>>

decide_mode_and_step(st, user_text, topic_key) ==
  IF skip_requested(user_text) THEN <<"CHAT", NoStep>>
  ELSE IF explicit_new_plan_request(user_text) THEN <<"PLAN_BUILD", "DRAFT">>
  ELSE IF refine_requested(user_text) /\ has_active_plan(st, topic_key)
       THEN <<"PLAN_BUILD", "REFINE">>
  ELSE IF plan_requested(user_text)
       THEN IF has_active_plan(st, topic_key) THEN <<"CHAT", NoStep>>
            ELSE <<"PLAN_BUILD", "DISCOVERY">>
  ELSE IF /\ st.mode = "PLAN_BUILD"
          /\ st.plan_build.step = "DISCOVERY"
          /\ st.plan_build.discovery_questions_asked < Len(DISCOVERY_QUESTIONS)
       THEN <<"PLAN_BUILD", "DISCOVERY">>
  ELSE <<"CHAT", NoStep>>

\* variant: the topic of the stored plan is not compared
should_create_new_plan_any_topic(st, user_text, topic_key) ==
  IF st.plan_build.active_plan_id = NoId THEN TRUE
  ELSE IF explicit_new_plan_request(user_text) THEN TRUE
  ELSE FALSE

should_create_new_plan(st, user_text, topic_key) ==
  IF st.plan_build.active_plan_id = NoId THEN TRUE
  ELSE IF st.plan_build.topic # topic_key THEN TRUE
  ELSE IF explicit_new_plan_request(user_text) THEN TRUE
  ELSE FALSE

(* ------------------------------- LLM ----------------------------------- *)
\* What gemini_text does in a request: "error" = every model failed and
\* HTTPException(500) is raised; "plain" = a text with no list in it (no JSON
\* plan, no bullet, no edit); "items" = a text carrying a non-empty list (the
\* JSON plan steps of a chat reply, the bullets of a draft, the edits of a
\* refine).
LLMOutcomes == {"error", "plain", "items"}

LLMTasks == << "Do A", "Do B" >>
FallbackTasks ==
  << "Write story", "Cheat sheet", "Mock question", "Explain projects",
     "STAR questions", "Design pattern", "Coding practice", "Checklist" >>

(* ------------------------------ plans ---------------------------------- *)
\* plan_<uuid4>: an id that no stored plan and no stored reference uses
PlanIdsInUse(st) == DOMAIN st.plans \cup {st.plan_build.active_plan_id}

NewPlanId(st) ==
  CHOOSE i \in 1..(MaxPlans + 2) :
     /\ i \notin PlanIdsInUse(st)
     /\ \A j \in 1..(i - 1) : j \in PlanIdsInUse(st)

\* variant: the dict is replaced by one that holds the new plan only
PutPlan_replacing(plans, plan) ==
  [i \in {plan.id} |-> plan]

PutPlan(plans, plan) ==
  [i \in DOMAIN plans \cup {plan.id} |-> IF i = plan.id THEN plan ELSE plans[i]]

title_map(topic_key) ==
  IF topic_key \in {"interview_confidence", "work_focus",
                    "relationship_communication", "appearance_confidence", "general"}
  THEN <<"title_map", topic_key>>
  ELSE <<"Personal Plan">>

build_plan_object(st, topic_key, llm) ==
  [ id    |-> NewPlanId(st),
    topic |-> topic_key,
    title |-> title_map(topic_key),
    tasks |-> IF llm = "items" THEN LLMTasks ELSE FallbackTasks ]

(* ----------------------------- responses ------------------------------- *)
NoResp ==
  [ status |-> "none", route |-> <<"CHAT", NoStep>>, topic_key |-> NoTopic,
    text |-> "none", ui_mode |-> "none", saved_confidence |-> FALSE,
    created_plan_id |-> NoId, updated_plan_id |-> NoId, plan |-> NoId ]

ChatResponse(text, ui_mode, created, updated, plan) ==
  [ text |-> text, ui_mode |-> ui_mode, created_plan_id |-> created,
    updated_plan_id |-> updated, plan |-> plan ]

\* a handler that raised: no response
Raised == ChatResponse("HTTP 500", "none", NoId, NoId, NoId)

(* ------------------------------ handlers ------------------------------- *)
\* every handler returns [st, out]: the mutated state and the response

handle_chat(st, user_text, topic_key, llm) ==
  IF llm = "error" THEN [st |-> st, out |-> Raised]
  ELSE IF llm = "items"
  THEN LET plan_id == NewPlanId(st)
           plan_obj == [ id |-> plan_id, topic |-> topic_key,
                         title |-> <<"Plan for", topic_key>>,
                         tasks |-> LLMTasks ]
       IN [ st  |-> [st EXCEPT !.plans = PutPlan(@, plan_obj),
                               !.plan_build.active_plan_id = plan_id,
                               !.plan_build.topic = topic_key],
            out |-> ChatResponse("llm reply", "CHAT", NoId, NoId, plan_id) ]
  ELSE [ st |-> st, out |-> ChatResponse("llm reply", "CHAT", NoId, NoId, NoId) ]

\* variant: the "already have a plan" branch leaves the mode as the router
\* set it
handle_plan_draft_keeping_mode(st0, user_text, topic_key, llm) ==
  LET st == [st0 EXCEPT !.plan_build.topic = topic_key,
                        !.plan_build.step = "DRAFT"]
  IN
  IF ~ should_create_new_plan(st, user_text, topic_key)
  THEN [ st  |-> [st EXCEPT !.plan_build.locked = TRUE],
         out |-> ChatResponse("already have a plan", "CHAT", NoId, NoId, NoId) ]
  ELSE IF llm = "error" THEN [st |-> st, out |-> Raised]
  ELSE LET plan == build_plan_object(st, topic_key, llm)
       IN [ st  |-> [st EXCEPT !.plans = PutPlan(@, plan),
                               !.plan_build.active_plan_id = plan.id,
                               !.plan_build.locked = TRUE,
                               !.plan_build.step = "REFINE",
                               !.mode = "CHAT"],
            out |-> ChatResponse("starter plan", "CHAT", plan.id, NoId, plan.id) ]

handle_plan_draft(st0, user_text, topic_key, llm) ==
  LET st == [st0 EXCEPT !.plan_build.topic = topic_key,
                        !.plan_build.step = "DRAFT"]
  IN
  IF ~ should_create_new_plan(st, user_text, topic_key)
  THEN [ st  |-> [st EXCEPT !.plan_build.locked = TRUE, !.mode = "CHAT"],
         out |-> ChatResponse("already have a plan", "CHAT", NoId, NoId, NoId) ]
  ELSE IF llm = "error" THEN [st |-> st, out |-> Raised]
  ELSE LET plan == build_plan_object(st, topic_key, llm)
       IN [ st  |-> [st EXCEPT !.plans = PutPlan(@, plan),
                               !.plan_build.active_plan_id = plan.id,
                               !.plan_build.locked = TRUE,
                               !.plan_build.step = "REFINE",
                               !.mode = "CHAT"],
            out |-> ChatResponse("starter plan", "CHAT", plan.id, NoId, plan.id) ]

\* variant: the question asked is always the first one
handle_plan_discovery_first_question(st0, user_text, topic_key, llm) ==
  LET q_asked == st0.plan_build.discovery_questions_asked
      st1 == [st0 EXCEPT !.plan_build.topic = topic_key,
                         !.plan_build.step = "DISCOVERY"]
      st2 == IF q_asked > 0 /\ q_asked - 1 = 0
             THEN [st1 EXCEPT !.plan_build.discovery_answers.deadline = user_text]
             ELSE IF q_asked > 0 /\ q_asked - 1 = 1
             THEN [st1 EXCEPT !.plan_build.discovery_answers.target = user_text]
             ELSE st1
  IN
  IF q_asked >= Len(DISCOVERY_QUESTIONS)
  THEN handle_plan_draft([st2 EXCEPT !.plan_build.step = "DRAFT"],
                         user_text, topic_key, llm)
  ELSE [ st  |-> [st2 EXCEPT !.plan_build.discovery_questions_asked = q_asked + 1,
                             !.mode = "PLAN_BUILD"],
         out |-> ChatResponse(DISCOVERY_QUESTIONS[1], "PLAN_BUILD",
                              NoId, NoId, NoId) ]

handle_plan_discovery(st0, user_text, topic_key, llm) ==
  LET q_asked == st0.plan_build.discovery_questions_asked
      st1 == [st0 EXCEPT !.plan_build.topic = topic_key,
                         !.plan_build.step = "DISCOVERY"]
      st2 == IF q_asked > 0 /\ q_asked - 1 = 0
             THEN [st1 EXCEPT !.plan_build.discovery_answers.deadline = user_text]
             ELSE IF q_asked > 0 /\ q_asked - 1 = 1
             THEN [st1 EXCEPT !.plan_build.discovery_answers.target = user_text]
             ELSE st1
  IN
  IF q_asked >= Len(DISCOVERY_QUESTIONS)
  THEN handle_plan_draft([st2 EXCEPT !.plan_build.step = "DRAFT"],
                         user_text, topic_key, llm)
  ELSE [ st  |-> [st2 EXCEPT !.plan_build.discovery_questions_asked = q_asked + 1,
                             !.mode = "PLAN_BUILD"],
         out |-> ChatResponse(DISCOVERY_QUESTIONS[q_asked + 1], "PLAN_BUILD",
                              NoId, NoId, NoId) ]

\* the edits of an "items" reply: one ADD line
add_task(tasks, text) ==
  IF Len(tasks) < 30 THEN Append(tasks, text) ELSE tasks

handle_plan_refine(st0, user_text, topic_key, llm) ==
  LET st == [st0 EXCEPT !.plan_build.topic = topic_key,
                        !.plan_build.step = "REFINE"]
      plan_id == st.plan_build.active_plan_id
  IN
  IF plan_id = NoId \/ plan_id \notin DOMAIN st.plans
  THEN handle_plan_draft([st EXCEPT !.plan_build.step = "DRAFT",
                                    !.plan_build.locked = FALSE],
                         user_text, topic_key, llm)
  ELSE IF explicit_new_plan_request(user_text)
  THEN handle_plan_draft(
          [st EXCEPT !.plan_build.locked = FALSE,
                     !.plan_build.step = "DRAFT",
                     !.plan_build.discovery_questions_asked = 0,
                     !.plan_build.discovery_answers =
                         [deadline |-> NoText, target |-> NoText]],
          user_text, topic_key, llm)
  ELSE IF ~ refine_requested(user_text)
  THEN [ st  |-> [st EXCEPT !.mode = "CHAT"],
         out |-> ChatResponse("which step", "CHAT", NoId, NoId, NoId) ]
  ELSE IF llm = "error" THEN [st |-> st, out |-> Raised]
  ELSE LET tasks == IF llm = "items"
                    THEN add_task(st.plans[plan_id].tasks, "Extra")
                    ELSE st.plans[plan_id].tasks
       IN [ st  |-> [st EXCEPT !.plans[plan_id].tasks = tasks, !.mode = "CHAT"],
            out |-> ChatResponse("plan updated", "CHAT", NoId, plan_id, plan_id) ]

(* ---------------------------- POST /chat ------------------------------- *)
\* The request up to the handler's return: [pre, st, out, saved, topic_key, route]
Turn(b, message, topic, llm) ==
  LET st0 == _ensure_state_shape(b)
      tk0 == normalize_topic_key(topic)
      cap == IF topic # NoTopic /\ tk0 # NoTopic
             THEN maybe_capture_confidence(st0, message, tk0)
             ELSE [st |-> st0, saved |-> FALSE]
      topic_key == IF tk0 # NoTopic THEN tk0
                   ELSE IF cap.st.plan_build.topic # NoTopic
                        THEN cap.st.plan_build.topic
                        ELSE "general"
      route == decide_mode_and_step(cap.st, message, topic_key)
      st1 == [cap.st EXCEPT !.mode = route[1],
                            !.plan_build.step = IF route[2] # NoStep THEN route[2] ELSE @]
      h == IF route[1] = "PLAN_BUILD"
           THEN IF route[2] = "DISCOVERY"
                THEN handle_plan_discovery(st1, message, topic_key, llm)
                ELSE IF route[2] = "DRAFT"
                THEN handle_plan_draft(st1, message, topic_key, llm)
                ELSE handle_plan_refine(st1, message, topic_key, llm)
           ELSE handle_chat(st1, message, topic_key, llm)
  IN [ pre |-> st0, st |-> h.st, out |-> h.out, saved |-> cap.saved,
       topic_key |-> topic_key, route |-> route ]

Response(t, status) ==
  [ status |-> status, route |-> t.route, topic_key |-> t.topic_key,
    text |-> t.out.text, ui_mode |-> t.out.ui_mode,
    saved_confidence |-> IF t.route[1] = "CHAT" THEN t.saved ELSE FALSE,
    created_plan_id |-> t.out.created_plan_id,
    updated_plan_id |-> t.out.updated_plan_id, plan |-> t.out.plan ]

(* ------------------------- history variables --------------------------- *)
\* They record what earlier requests did; no handler reads them.
Min(a, b) == IF a < b THEN a ELSE b

IsQuestion(text) == \E q \in 1..Len(DISCOVERY_QUESTIONS) : DISCOVERY_QUESTIONS[q] = text

NextAsked(t) ==
  IF t.out.created_plan_id # NoId THEN [q \in 1..Len(DISCOVERY_QUESTIONS) |-> 0]
  ELSE [q \in 1..Len(DISCOVERY_QUESTIONS) |->
          IF DISCOVERY_QUESTIONS[q] = t.out.text THEN Min(asked[q] + 1, 2) ELSE asked[q]]

ScriptOff == [phase |-> -1, topic_key |-> NoTopic, answer1 |-> NoText]

PlanRequestOnly(message) ==
  /\ plan_requested(message)
  /\ ~ skip_requested(message)
  /\ ~ explicit_new_plan_request(message)

NoIntent(message) ==
  /\ ~ plan_requested(message)
  /\ ~ skip_requested(message)
  /\ ~ explicit_new_plan_request(message)
  /\ ~ refine_requested(message)

\* phase 1: the plan request was made; 2: the first answer was sent;
\* 3: the second answer was sent
NextScript(t, message) ==
  IF script.phase = 0 /\ PlanRequestOnly(message)
  THEN [phase |-> 1, topic_key |-> t.topic_key, answer1 |-> NoText]
  ELSE IF script.phase = 1 /\ NoIntent(message) /\ t.topic_key = script.topic_key
  THEN [phase |-> 2, topic_key |-> t.topic_key, answer1 |-> message]
  ELSE IF script.phase = 2 /\ NoIntent(message) /\ t.topic_key = script.topic_key
  THEN [script EXCEPT !.phase = 3]
  ELSE ScriptOff

\* the number a request carries for the topic it names, or NoVal
CarriedNumber(message, topic) ==
  IF topic # NoTopic /\ ConfidenceMatch(message) \in 1..10
  THEN ConfidenceMatch(message) ELSE NoVal

NextFirstNum(message, topic) ==
  LET tk == normalize_topic_key(topic) IN
  IF CarriedNumber(message, topic) # NoVal /\ firstNum[tk] = NoVal
  THEN [firstNum EXCEPT ![tk] = CarriedNumber(message, topic)]
  ELSE firstNum

NoReq == [message |-> << >>, topic |-> NoTopic]

\* a request that runs to its end: the handler returns and the file is saved
chat_endpoint ==
  /\ resp.status = "none"
  /\ turns < MaxTurns
  /\ \E message \in Messages, topic \in ReqTopics, llm \in LLMOutcomes :
       LET t == Turn(bucket, message, topic, llm) IN
       /\ t.out # Raised
       /\ \A i \in DOMAIN t.st.plans : i <= MaxPlans
       /\ bucket' = _save_all_state(bucket, t.st)
       /\ pre' = t.pre
       /\ mem' = t.st
       /\ req' = [message |-> message, topic |-> topic]
       /\ resp' = Response(t, "ok")
       /\ asked' = NextAsked(t)
       /\ script' = NextScript(t, message)
       /\ firstNum' = NextFirstNum(message, topic)
  /\ turns' = turns + 1
  /\ UNCHANGED <<gate, hist, race, gem, built, notify, callVars>>

\* variant: the state is saved although the handler raised
chat_endpoint_error_saving ==
  /\ resp.status = "none"
  /\ turns < MaxTurns
  /\ \E message \in Messages, topic \in ReqTopics :
       LET t == Turn(bucket, message, topic, "error") IN
       /\ t.out = Raised
       /\ bucket' = _save_all_state(bucket, t.st)
       /\ pre' = t.pre
       /\ mem' = t.st
       /\ req' = [message |-> message, topic |-> topic]
       /\ resp' = Response(t, "error")
  /\ script' = ScriptOff
  /\ UNCHANGED <<asked, firstNum, gate, hist, race, gem, built, notify, callVars>>
  /\ turns' = turns + 1

\* a request in which gemini_text raises: HTTP 500, nothing is saved
chat_endpoint_error ==
  /\ resp.status = "none"
  /\ turns < MaxTurns
  /\ \E message \in Messages, topic \in ReqTopics :
       LET t == Turn(bucket, message, topic, "error") IN
       /\ t.out = Raised
       /\ bucket' = bucket
       /\ pre' = t.pre
       /\ mem' = t.st
       /\ req' = [message |-> message, topic |-> topic]
       /\ resp' = Response(t, "error")
  /\ script' = ScriptOff
  /\ UNCHANGED <<asked, firstNum, gate, hist, race, gem, built, notify, callVars>>
  /\ turns' = turns + 1

\* the response (or the error) has been sent: the request's locals
\* (user_state, resp) are gone, only the file remains
request_returns ==
  /\ resp.status # "none"
  /\ pre' = _ensure_state_shape(bucket)
  /\ mem' = _ensure_state_shape(bucket)
  /\ req' = NoReq
  /\ resp' = NoResp
  /\ UNCHANGED <<bucket, turns, asked, script, firstNum, gate, hist, race, gem,
                 built, notify, callVars>>

(* ------------------------------- Init ---------------------------------- *)
NoGate == [ st |-> DEFAULT_STATE, user_text |-> << >>, topic_key |-> NoTopic,
            called |-> FALSE, result |-> FALSE, st_after |-> DEFAULT_STATE ]

StoredBucket(keys, st) ==
  [ keys |-> keys, mode |-> st.mode, plan_build |-> st.plan_build,
    plans |-> st.plans, confidence |-> st.confidence ]

\* a state stored after the first discovery question was asked
MidDiscovery(topic_key) ==
  [DEFAULT_STATE EXCEPT !.mode = "PLAN_BUILD",
                        !.plan_build.topic = topic_key,
                        !.plan_build.discovery_questions_asked = 1]

\* The file may hold no entry for the user, an entry written by store.py
\* (none of the chat keys), or an entry that holds some or all of the chat
\* keys; the stored values are those of a user who has not started, or who
\* was asked the first discovery question.
StoredShapes ==
  { {}, {"plan_build"}, {"plans", "metrics"}, {"plan_build", "plans", "metrics"},
    TopKeys }

InitBuckets ==
  { StoredBucket(keys, DEFAULT_STATE) : keys \in StoredShapes }
  \cup { StoredBucket(TopKeys, MidDiscovery(t)) : t \in Topics }

Init ==
  /\ bucket \in InitBuckets
  /\ pre = _ensure_state_shape(bucket)
  /\ mem = _ensure_state_shape(bucket)
  /\ req = NoReq
  /\ resp = NoResp
  /\ turns = 0
  /\ asked = [q \in 1..Len(DISCOVERY_QUESTIONS) |->
               IF q <= bucket.plan_build.discovery_questions_asked THEN 1 ELSE 0]
  /\ script = IF bucket.plan_build.discovery_questions_asked = 1
              THEN [phase |-> 1, topic_key |-> bucket.plan_build.topic,
                    answer1 |-> NoText]
              ELSE [phase |-> 0, topic_key |-> NoTopic, answer1 |-> NoText]
  /\ firstNum = [t \in Topics |-> NoVal]
  /\ gate = NoGate
  /\ hist = Idle /\ race = Idle /\ gem = Idle /\ built = Idle /\ notify = Idle /\ CallsIdle

Next == chat_endpoint \/ chat_endpoint_error \/ request_returns

Spec == Init /\ [][Next]_vars

(* ---------------- should_create_new_plan on its own -------------------- *)
\* the states the function is called on: any stored active plan id and
\* plan_build.topic, locked or not
GateStates ==
  { [DEFAULT_STATE EXCEPT !.plan_build.active_plan_id = id,
                          !.plan_build.topic = t,
                          !.plan_build.locked = l] :
      id \in {NoId} \cup 1..MaxPlans, t \in Topics \cup {NoTopic}, l \in BOOLEAN }

\* no /chat request of the user is in progress and nothing is stored
ChatIdle ==
  /\ bucket = StoredBucket({}, DEFAULT_STATE)
  /\ pre = DEFAULT_STATE
  /\ mem = DEFAULT_STATE
  /\ req = NoReq
  /\ resp = NoResp
  /\ turns = 0
  /\ asked = [q \in 1..Len(DISCOVERY_QUESTIONS) |-> 0]
  /\ script = ScriptOff
  /\ firstNum = [t \in Topics |-> NoVal]

InitGate ==
  /\ ChatIdle
  /\ hist = Idle /\ race = Idle /\ gem = Idle /\ built = Idle /\ notify = Idle /\ CallsIdle
  /\ gate \in { [NoGate EXCEPT !.st = st, !.user_text = m, !.topic_key = tk,
                                !.st_after = st] :
                   st \in GateStates, m \in Messages, tk \in Topics \cup {"general"} }

call_should_create_new_plan ==
  /\ ~ gate.called
  /\ gate' = [gate EXCEPT !.called = TRUE,
                          !.result = should_create_new_plan(gate.st, gate.user_text,
                                                            gate.topic_key),
                          !.st_after = gate.st]
  /\ UNCHANGED <<chatVars, hist, race, gem, built, notify, callVars>>

NextGate == call_should_create_new_plan

SpecGate == InitGate /\ [][NextGate]_vars

(* ----------------- history and follow-up of a user --------------------- *)
\* The part of chat_endpoint and get_history that reads and writes "history"
\* and "followup".  It does not depend on the route: every handler returns
\* exactly one coach message, or raises.  Time is counted in hours.
MaxHistTurns == 3        \* requests explored per behaviour

FOLLOWUP_HOURS == 12
HISTORY_CAP    == 60     \* user_state["history"][-60:]
INJECT_CAP     == 120    \* state["history"][-120:]
NoTs           == -1     \* Python None for a timestamp

HistKeys == {"history", "followup"}

NoFollowup == [pending_at |-> NoTs, pending_for_ts |-> NoTs, last_sent_at |-> NoTs]

Entry(role, ts, kind) == [role |-> role, ts |-> ts, kind |-> kind]

\* seq[-n:]
LastN(seq, n) ==
  IF Len(seq) <= n THEN seq ELSE SubSeq(seq, Len(seq) - n + 1, Len(seq))

\* next((m for m in reversed(history) if m.get("role") == "user"), None): its ts
LastUserTs(history) ==
  IF \E i \in 1..Len(history) : history[i].role = "user"
  THEN LET i == CHOOSE k \in 1..Len(history) :
                  /\ history[k].role = "user"
                  /\ \A j \in (k + 1)..Len(history) : history[j].role # "user"
       IN history[i].ts
  ELSE NoTs

\* A history in memory: `list` is the list state["history"] names, `file` the
\* list object of the stored bucket (what the save writes), `shared` tells
\* whether the two are one object.
HAppend(h, e) ==
  [ list   |-> Append(h.list, e),
    file   |-> IF h.shared THEN Append(h.file, e) ELSE h.file,
    shared |-> h.shared ]

\* state["history"] = state["history"][-n:]: the name is bound to a new list
HRebind(h, n) == [ list |-> LastN(h.list, n), file |-> h.file, shared |-> FALSE ]

\* returns [h, fu, injected]
_inject_due_followup_if_needed(h, fu, now) ==
  IF fu.pending_at = NoTs \/ fu.pending_for_ts = NoTs
  THEN [h |-> h, fu |-> fu, injected |-> FALSE]
  ELSE IF now < fu.pending_at
  THEN [h |-> h, fu |-> fu, injected |-> FALSE]
  ELSE IF LastUserTs(h.list) = NoTs \/ LastUserTs(h.list) # fu.pending_for_ts
  THEN [ h |-> h,
         fu |-> [fu EXCEPT !.pending_at = NoTs, !.pending_for_ts = NoTs],
         injected |-> FALSE ]
  ELSE [ h  |-> HRebind(HAppend(h, Entry("coach", now, "checkin_12h")), INJECT_CAP),
         fu |-> [pending_at |-> NoTs, pending_for_ts |-> NoTs, last_sent_at |-> now],
         injected |-> TRUE ]

\* variant: a follow-up that is still pending is kept
_schedule_followup_unless_pending(h, fu, now) ==
  IF fu.pending_at # NoTs THEN fu
  ELSE [fu EXCEPT !.pending_at = now + FOLLOWUP_HOURS,
                  !.pending_for_ts = LastUserTs(h.list)]

_schedule_followup(h, fu, now) ==
  [fu EXCEPT !.pending_at = now + FOLLOWUP_HOURS,
             !.pending_for_ts = LastUserTs(h.list)]

\* what a request loads
LoadedHistory(f)  == IF "history" \in f.keys THEN f.history ELSE << >>
LoadedFollowup(f) == IF "followup" \in f.keys THEN f.followup ELSE NoFollowup

\* the follow-up is pending, its time has come, and the user's last message
\* is still the one that scheduled it
FollowupDue(f, now) ==
  /\ LoadedFollowup(f).pending_at # NoTs
  /\ now >= LoadedFollowup(f).pending_at
  /\ LoadedFollowup(f).pending_for_ts # NoTs
  /\ LoadedFollowup(f).pending_for_ts = LastUserTs(LoadedHistory(f))

\* chat_endpoint up to the handler's call: [h, fu, injected]
HistBeforeHandler(f, now) ==
  LET h0 == [ list |-> LoadedHistory(f), file |-> LoadedHistory(f),
              shared |-> "history" \in f.keys ]
      h1 == HAppend(h0, Entry("user", now, "none"))
  IN _inject_due_followup_if_needed(h1, LoadedFollowup(f), now)

\* chat_endpoint after the handler returned: [h, fu, injected]
HistAfterHandler(f, now) ==
  LET b  == HistBeforeHandler(f, now)
      h2 == HAppend(b.h, Entry("assistant", now, "none"))
      h3 == HRebind(h2, HISTORY_CAP)
  IN [ h |-> h3, fu |-> _schedule_followup(h3, b.fu, now), injected |-> b.injected ]

Checkins(history) ==
  Cardinality({i \in 1..Len(history) : history[i].kind = "checkin_12h"})

NoLast ==
  [ op |-> "none", due |-> FALSE, pre_history |-> << >>, history |-> << >>,
    followup |-> NoFollowup, injected |-> FALSE ]

\* POST /chat that runs to its end
chat_endpoint_history ==
  /\ hist.turns < MaxHistTurns
  /\ \E delta \in {1, FOLLOWUP_HOURS} :
       LET now == hist.now + delta
           a   == HistAfterHandler(hist, now)
       IN hist' = [ keys     |-> hist.keys,
                    history  |-> IF "history" \in hist.keys THEN a.h.file
                                 ELSE hist.history,
                    followup |-> IF "followup" \in hist.keys THEN a.fu
                                 ELSE hist.followup,
                    now      |-> now,
                    turns    |-> hist.turns + 1,
                    last     |-> [ op |-> "chat", due |-> FollowupDue(hist, now),
                                   pre_history |-> LoadedHistory(hist),
                                   history |-> a.h.list, followup |-> a.fu,
                                   injected |-> a.injected ] ]
  /\ UNCHANGED <<chatVars, gate, race, gem, built, notify, callVars>>

\* POST /chat in which gemini_text raises: nothing is saved
chat_endpoint_history_error ==
  /\ hist.turns < MaxHistTurns
  /\ \E delta \in {1, FOLLOWUP_HOURS} :
       LET now == hist.now + delta
           b   == HistBeforeHandler(hist, now)
       IN hist' = [hist EXCEPT !.now = now, !.turns = hist.turns + 1,
                               !.last = [ op |-> "chat_error",
                                          due |-> FollowupDue(hist, now),
                                          pre_history |-> LoadedHistory(hist),
                                          history |-> b.h.list, followup |-> b.fu,
                                          injected |-> b.injected ]]
  /\ UNCHANGED <<chatVars, gate, race, gem, built, notify, callVars>>

\* GET /chat/history: returns the loaded history; with a coach it saves the
\* file again, history and followup as loaded
get_history ==
  /\ hist.turns < MaxHistTurns
  /\ \E delta \in {1, FOLLOWUP_HOURS} :
       LET now == hist.now + delta
       IN hist' = [hist EXCEPT !.now = now, !.turns = hist.turns + 1,
                               !.last = [ op |-> "history",
                                          due |-> FollowupDue(hist, now),
                                          pre_history |-> LoadedHistory(hist),
                                          history |-> LoadedHistory(hist),
                                          followup |-> LoadedFollowup(hist),
                                          injected |-> FALSE ]]
  /\ UNCHANGED <<chatVars, gate, race, gem, built, notify, callVars>>

\* a history of n entries stored by earlier turns, the last of them at hour 0
OldHistory(n) ==
  [i \in 1..n |-> Entry(IF i % 2 = 1 THEN "user" ELSE "assistant",
                        IF i >= n - 1 THEN 0 ELSE -1, "none")]

\* the follow-up scheduled by a turn at hour 0
PendingFollowup ==
  [pending_at |-> FOLLOWUP_HOURS, pending_for_ts |-> 0, last_sent_at |-> NoTs]

InitHist ==
  /\ ChatIdle
  /\ gate = NoGate /\ race = Idle /\ gem = Idle /\ built = Idle /\ notify = Idle /\ CallsIdle
  /\ \E keys \in SUBSET HistKeys,
        n \in {0, 2, HISTORY_CAP - 2, HISTORY_CAP},
        fu \in {NoFollowup, PendingFollowup} :
       /\ ("history" \notin keys) => n = 0
       /\ ("followup" \notin keys \/ n = 0) => fu = NoFollowup
       /\ hist = [ keys |-> keys, history |-> OldHistory(n), followup |-> fu,
                   now |-> 0, turns |-> 0, last |-> NoLast ]

NextHist == chat_endpoint_history \/ chat_endpoint_history_error \/ get_history

SpecHist == InitHist /\ [][NextHist]_vars

(* ------------- two /chat requests in separate processes ---------------- *)
\* Each request reads the whole file, changes its copy and writes the whole
\* copy back.  Inside one server process chat_endpoint runs without a
\* suspension point, so the two requests are served by two worker processes;
\* the read and the write of a request are separate steps.
Users == {"u1", "u2"}
Reqs  == {1, 2}

RaceMessages == { <<"help", "me">>, <<"new", "plan">>, <<"hello", "help", "me">> }

\* tmp.write_text(json.dumps(data)); tmp.replace(path): the new content of the
\* path is the whole of data, whatever the path held
_safe_write_json_keeping(content, data) == content

_safe_write_json(content, data) == data

NoRaceReq ==
  [ pc |-> "start", user |-> "u1", all_state |-> << >>, saves_seen |-> 0 ]

\* the request loads the file and runs the whole turn on its copy
race_load(r) ==
  /\ race.req[r].pc = "start"
  /\ \E u \in Users, message \in RaceMessages, topic \in Topics,
        llm \in {"plain", "items"} :
       LET t == Turn(race.file[u], message, topic, llm)
       IN race' = [race EXCEPT
            !.req[r] = [ pc |-> "loaded", user |-> u,
                         all_state |-> [race.file EXCEPT
                                          ![u] = _save_all_state(race.file[u], t.st)],
                         saves_seen |-> Len(race.saves) ]]
  /\ UNCHANGED <<chatVars, gate, hist, gem, built, notify, callVars>>

\* _save_all_state(all_state) of the request
race_save(r) ==
  /\ race.req[r].pc = "loaded"
  /\ race' = [race EXCEPT !.file = _safe_write_json(race.file, race.req[r].all_state),
                          !.saves = Append(race.saves, r),
                          !.req[r].pc = "saved"]
  /\ UNCHANGED <<chatVars, gate, hist, gem, built, notify, callVars>>

InitRace ==
  /\ ChatIdle
  /\ gate = NoGate /\ hist = Idle /\ gem = Idle /\ built = Idle /\ notify = Idle /\ CallsIdle
  /\ \E f \in [Users -> { StoredBucket(TopKeys, DEFAULT_STATE),
                          StoredBucket(TopKeys, MidDiscovery("work_focus")) }] :
       race = [ file0 |-> f, file |-> f, saves |-> << >>,
                req |-> [r \in Reqs |-> NoRaceReq] ]

NextRace == \E r \in Reqs : race_load(r) \/ race_save(r)

SpecRace == InitRace /\ [][NextRace]_vars

(* ----------------------------- gemini_text ----------------------------- *)
\* A text is a sequence of characters; << >> stands for both None and "",
\* which `if text:` treats alike.  A response of generate_content either
\* raises or carries a text and a list of candidates, of which the code reads
\* the parts of the first; a part without text is << >>.
MODEL_PREFERENCE == << "gemini-2.5-flash", "gemini-2.5-pro", "gemini-2.0-flash" >>

\* values of the GEMINI_MODEL setting: the default, a listed model, empty
GeminiModels == { "gemini-3-flash-preview", "gemini-2.5-pro", "" }

InSeq(x, seq) == \E i \in 1..Len(seq) : seq[i] = x

Candidates(GEMINI_MODEL) ==
  IF GEMINI_MODEL # "" /\ ~InSeq(GEMINI_MODEL, MODEL_PREFERENCE)
  THEN << GEMINI_MODEL >> \o MODEL_PREFERENCE
  ELSE MODEL_PREFERENCE

IsSpace(c) == c \in {" ", "\n"}

RECURSIVE LStrip(_)
LStrip(t) == IF t # << >> /\ IsSpace(Head(t)) THEN LStrip(Tail(t)) ELSE t

RECURSIVE RStrip(_)
RStrip(t) ==
  IF t # << >> /\ IsSpace(t[Len(t)]) THEN RStrip(SubSeq(t, 1, Len(t) - 1)) ELSE t

\* str.strip()
Strip(t) == RStrip(LStrip(t))

\* "".join([p.text for p in parts if getattr(p, "text", None)])
RECURSIVE JoinParts(_)
JoinParts(parts) ==
  IF parts = << >> THEN << >> ELSE Head(parts) \o JoinParts(Tail(parts))

Raises == [raises |-> TRUE, text |-> << >>, candidates |-> << >>]

Responses ==
  { Raises }
  \cup { [raises |-> FALSE, text |-> t, candidates |-> c] :
           t \in { << >>, << "\n" >>, << " ", "o", "k", "\n" >> },
           c \in { << >>, << << << >> >> >>,
                   << << << "o" >>, << >>, << "k", " " >> >> >> } }

\* one pass of the loop body on the response of the model: what the pass
\* does ("return", or "next" for the next candidate) and the value returned
gemini_text(ans) ==
  IF ans.raises THEN [do |-> "next", value |-> << >>]
  ELSE IF ans.text # << >> THEN [do |-> "return", value |-> Strip(ans.text)]
  ELSE IF ans.candidates # << >>
  THEN [do |-> "return", value |-> Strip(JoinParts(ans.candidates[1]))]
  ELSE [do |-> "next", value |-> << >>]

\* the loop calls the next candidate model
gemini_call_model ==
  /\ gem.status = "running"
  /\ Len(gem.calls) < Len(Candidates(gem.GEMINI_MODEL))
  /\ \E ans \in Responses :
       LET model == Candidates(gem.GEMINI_MODEL)[Len(gem.calls) + 1]
           pass  == gemini_text(ans)
       IN gem' = [gem EXCEPT
                    !.calls  = Append(gem.calls, [model |-> model, resp |-> ans]),
                    !.status = IF pass.do = "return" THEN "returned" ELSE "running",
                    !.value  = pass.value]
  /\ UNCHANGED <<chatVars, gate, hist, race, built, notify, callVars>>

\* the loop is over without a return: HTTPException(500)
gemini_raise ==
  /\ gem.status = "running"
  /\ Len(gem.calls) = Len(Candidates(gem.GEMINI_MODEL))
  /\ gem' = [gem EXCEPT !.status = "raised"]
  /\ UNCHANGED <<chatVars, gate, hist, race, built, notify, callVars>>

InitGemini ==
  /\ ChatIdle
  /\ gate = NoGate /\ hist = Idle /\ race = Idle /\ built = Idle /\ notify = Idle /\ CallsIdle
  /\ \E m \in GeminiModels :
       gem = [ GEMINI_MODEL |-> m, calls |-> << >>, status |-> "running",
               value |-> << >> ]

NextGemini == gemini_call_model \/ gemini_raise

SpecGemini == InitGemini /\ [][NextGemini]_vars

(* ------------------ build_plan_object on a given text ------------------ *)
\* The text the generator returned is a sequence of lines and a line a
\* sequence of tokens: a blank " ", a bullet mark, a number mark "1." or a
\* word.  A word stands for its lower-case spelling; LongWord is a run of
\* more than 160 characters, Word160 a word of exactly 160.
MaxLines == 11         \* lines of the generated text

LongWord == "long"
Word160  == "word160"
Ellipsis == "..."    \* the one character U+2026

LineKinds ==
  { << >>, << " " >>, << "-", " " >>,
    << "-", " ", "review", " ", "kubernetes" >>,
    << " ", "1.", " ", "star", " ", "pipeline", " ", "sql" >>,
    << "*", " ", "12.", " ", "restart" >>,
    << "-", " ", "pipeline", " ", LongWord, " ", "sql" >>,
    << "walk" >>, << Word160 >>, << "1.", " ", "go", " ", Word160 >> }

\* re.sub(r"^\s*[-*•]\s+", "", ln).strip() on a stripped line
DropBullet(ln) ==
  IF Len(ln) >= 2 /\ ln[1] \in {"-", "*"} /\ IsSpace(ln[2])
  THEN Strip(Tail(ln)) ELSE ln

\* re.sub(r"^\s*\d+\.\s+", "", ln).strip()
DropNumber(ln) ==
  IF Len(ln) >= 2 /\ ln[1] \in {"1.", "12."} /\ IsSpace(ln[2])
  THEN Strip(Tail(ln)) ELSE ln

\* len() of a token: that of its spelling, but 161 for LongWord, 160 for
\* Word160 and 1 for the ellipsis
Width(token) ==
  IF token = LongWord THEN 161
  ELSE IF token = Word160 THEN 160
  ELSE IF token = Ellipsis THEN 1
  ELSE Len(token)

RECURSIVE LineWidth(_)
LineWidth(ln) ==
  IF ln = << >> THEN 0 ELSE Width(Head(ln)) + LineWidth(Tail(ln))

\* ln[:room]: the tokens that fit, and a piece "cut" of the token the cut
\* falls in
RECURSIVE CutAt(_, _)
CutAt(ln, room) ==
  IF ln = << >> THEN << >>
  ELSE IF Width(Head(ln)) <= room
  THEN << Head(ln) >> \o CutAt(Tail(ln), room - Width(Head(ln)))
  ELSE IF room > 0 THEN << "cut" >> ELSE << >>

\* if len(ln) > 160: ln = ln[:157].rstrip() + "…"
Truncate(ln) ==
  IF LineWidth(ln) > 160 THEN RStrip(CutAt(ln, 157)) \o << Ellipsis >> ELSE ln

RECURSIVE ExtractFrom(_, _, _)
ExtractFrom(lines, bullets, max_items) ==
  IF lines = << >> THEN bullets
  ELSE LET ln == DropNumber(DropBullet(Strip(Head(lines))))
       IN IF ln = << >> THEN ExtractFrom(Tail(lines), bullets, max_items)
          ELSE IF Len(bullets) + 1 >= max_items THEN Append(bullets, Truncate(ln))
          ELSE ExtractFrom(Tail(lines), Append(bullets, Truncate(ln)), max_items)

extract_bullets(text, max_items) == ExtractFrom(text, << >>, max_items)

\* the resources are named by their URLs
RESOURCE_CATALOG ==
  [ mlops            |-> << "mlops-cd-ct", "vertex-pipelines", "mlflow-tracking",
                            "vertex-monitoring" >>,
    system_design    |-> << "architecture-center", "sre-workbook" >>,
    data_engineering |-> << "bigquery-docs", "bigquery-best-practices",
                            "cloud-storage-docs" >>,
    kubernetes       |-> << "kubernetes-basics", "kubernetes-deployments" >>,
    interview        |-> << "star-method", "system-design-primer" >> ]

\* any(k in t for k in [...]): the key words a token contains
Keywords(token) ==
  CASE token \in {"pipeline", "deployment"}          -> {"mlops"}
    [] token \in {"sql", "storage"}                  -> {"data_engineering"}
    [] token \in {"system design", "architecture"}   -> {"system_design"}
    [] token \in {"kubernetes"}                      -> {"kubernetes"}
    [] token \in {"star", "restart", "interview", "behavioral"} -> {"interview"}
    [] OTHER                                         -> {}

Mentions(task_text, group) ==
  \E i \in 1..Len(task_text) : group \in Keywords(task_text[i])

\* the loop over picks: skip a URL already seen, stop at max_items
RECURSIVE FirstDistinct(_, _, _)
FirstDistinct(picks, out, max_items) ==
  IF picks = << >> THEN out
  ELSE IF InSeq(Head(picks), out) THEN FirstDistinct(Tail(picks), out, max_items)
  ELSE IF Len(out) + 1 >= max_items THEN Append(out, Head(picks))
  ELSE FirstDistinct(Tail(picks), Append(out, Head(picks)), max_items)

Picks(topic_key, task_text) ==
  LET add(g) == IF Mentions(task_text, g) THEN RESOURCE_CATALOG[g] ELSE << >>
      picks  == add("mlops") \o add("data_engineering") \o add("system_design")
                  \o add("kubernetes") \o add("interview")
  IN IF picks = << >> /\ topic_key = "interview_confidence"
     THEN RESOURCE_CATALOG["interview"] \o RESOURCE_CATALOG["system_design"]
            \o RESOURCE_CATALOG["mlops"]
     ELSE picks

pick_resources_uncapped(topic_key, task_text, max_items) ==
  FirstDistinct(Picks(topic_key, task_text), << >>, max_items + 1)

pick_resources(topic_key, task_text, max_items) ==
  FirstDistinct(Picks(topic_key, task_text), << >>, max_items)

\* the hardcoded task texts
FallbackLines ==
  << << "write", "story" >>, << "review", "concepts", "cheat", "sheet" >>,
     << "mock", "interview", "question" >>, << "explain", "projects" >>,
     << "behavioral", "questions", "star" >>,
     << "review", "system design", "pattern" >>, << "coding", "practice" >>,
     << "checklist", "interview", "day" >> >>

\* the tasks of build_plan_object for the text `ideas` of the generator
PlanTasks(topic_key, ideas) ==
  LET bullets    == extract_bullets(ideas, 10)
      task_texts == IF bullets = << >> THEN FallbackLines ELSE bullets
  IN [i \in 1..Len(task_texts) |->
        [ text |-> task_texts[i], status |-> "todo",
          resources |-> pick_resources(topic_key, task_texts[i], 3) ]]

NoBuilt == [ topic_key |-> "general", ideas |-> << >>, called |-> FALSE, tasks |-> << >> ]

call_build_plan_object ==
  /\ ~built.called
  /\ built' = [built EXCEPT !.called = TRUE,
                            !.tasks = PlanTasks(built.topic_key, built.ideas)]
  /\ UNCHANGED <<chatVars, gate, hist, race, gem, notify, callVars>>

InitBuild ==
  /\ ChatIdle
  /\ gate = NoGate /\ hist = Idle /\ race = Idle /\ gem = Idle /\ notify = Idle /\ CallsIdle
  /\ \E n \in 0..MaxLines, a \in LineKinds, b \in LineKinds,
        t \in Topics \cup {"general"} :
       built = [NoBuilt EXCEPT
                  !.topic_key = t,
                  !.ideas = [i \in 1..n |-> IF i % 2 = 1 THEN a ELSE b]]

NextBuild == call_build_plan_object

SpecBuild == InitBuild /\ [][NextBuild]_vars

(* ------------------------------ notify.py ------------------------------ *)
\* users_activity.json, the clock in hours and the last /notify request, for
\* calls that are served one after the other.  `mails` lists the messages
\* the mail service accepted, in the order of sending.
MaxNotifyCalls == 3     \* requests explored per behaviour

CHECKIN_AFTER_HOURS  == 12
EMAIL_COOLDOWN_HOURS == 12

NoHeader == "none"      \* the request carries no X-Scheduler-Token
NoEmail  == ""

\* the order of users.items()
UserOrder == << "u1", "u2" >>

AbsentUser ==
  [ present |-> FALSE, email |-> NoEmail, last_active_utc |-> NoTs,
    last_checkin_email_utc |-> NoTs ]

\* "401", "500" or "ok" for the two checks at the head of run_checkins
Authorize_any_header(token, header) ==
  IF token = "" THEN "500" ELSE "ok"

Authorize(token, header) ==
  IF token = "" THEN "500"
  ELSE IF header # token THEN "401"
  ELSE "ok"

\* last_emailed > cooldown_cutoff
InCooldown_never(u, now) == FALSE

InCooldown(u, now) ==
  /\ u.last_checkin_email_utc # NoTs
  /\ u.last_checkin_email_utc > now - EMAIL_COOLDOWN_HOURS

\* the user passes every `continue` before the mail is composed
Eligible(u, now) ==
  /\ u.email # NoEmail /\ u.last_active_utc # NoTs
  /\ ~(u.last_active_utc > now - CHECKIN_AFTER_HOURS)
  /\ ~InCooldown(u, now)

\* one pass of the loop body for user_id; _send_email returns for the users
\* in `delivered` and raises for the others
checkin_user_marking_failures(acc, user_id, now, delivered) ==
  LET u == acc.users[user_id]
  IN IF ~Eligible(u, now)
     THEN [acc EXCEPT !.considered = @ + 1]
     ELSE [acc EXCEPT !.considered = @ + 1,
                      !.users[user_id].last_checkin_email_utc = now,
                      !.emailed = IF user_id \in delivered THEN @ + 1 ELSE @,
                      !.sent = IF user_id \in delivered THEN @ \cup {user_id} ELSE @,
                      !.failed = IF user_id \in delivered THEN @ ELSE @ \cup {user_id}]

checkin_user(acc, user_id, now, delivered) ==
  LET u == acc.users[user_id]
  IN IF ~Eligible(u, now)
     THEN [acc EXCEPT !.considered = @ + 1]
     ELSE IF user_id \in delivered
     THEN [acc EXCEPT !.considered = @ + 1,
                      !.users[user_id].last_checkin_email_utc = now,
                      !.emailed = @ + 1,
                      !.sent = @ \cup {user_id}]
     ELSE [acc EXCEPT !.considered = @ + 1,
                      !.failed = @ \cup {user_id}]

\* for user_id, u in users.items(): ...
RECURSIVE CheckinLoop(_, _, _, _)
CheckinLoop(order, acc, now, delivered) ==
  IF order = << >> THEN acc
  ELSE IF ~acc.users[Head(order)].present
  THEN CheckinLoop(Tail(order), acc, now, delivered)
  ELSE CheckinLoop(Tail(order), checkin_user(acc, Head(order), now, delivered),
                   now, delivered)

NoRun ==
  [ op |-> "none", status |-> "none", header |-> NoHeader, emailed |-> 0,
    considered |-> 0, sent |-> {}, failed |-> {},
    pre_users |-> [u \in Users |-> AbsentUser], pre_mails |-> 0 ]

MailsOf(acc, now) ==
  LET one(u) == [ user |-> u, at |-> now, email |-> acc.users[u].email,
                  last_active_utc |-> acc.users[u].last_active_utc ]
  IN  (IF "u1" \in acc.sent THEN << one("u1") >> ELSE << >>)
        \o (IF "u2" \in acc.sent THEN << one("u2") >> ELSE << >>)

\* POST /notify/activity
record_activity ==
  /\ notify.calls < MaxNotifyCalls
  /\ \E delta \in {0, 6, 12}, user_id \in Users, email \in {NoEmail, "a@b.c"} :
       LET now == notify.now + delta
           u   == notify.users[user_id]
       IN notify' = [notify EXCEPT
            !.now = now, !.calls = @ + 1,
            !.users[user_id] =
               [ present |-> TRUE,
                 email |-> IF email # NoEmail THEN email ELSE u.email,
                 last_active_utc |-> now,
                 last_checkin_email_utc |-> u.last_checkin_email_utc ],
            !.last = [NoRun EXCEPT !.op = "activity", !.status = "ok",
                                   !.pre_users = notify.users,
                                   !.pre_mails = Len(notify.mails)]]
  /\ UNCHANGED <<chatVars, gate, hist, race, gem, built, callVars>>

\* POST /notify/run-checkins
run_checkins ==
  /\ notify.calls < MaxNotifyCalls
  /\ \E delta \in {0, 6, 12}, header \in {NoHeader, "guess", "secret"},
        delivered \in SUBSET Users :
       LET now  == notify.now + delta
           auth == Authorize(notify.SCHEDULER_TOKEN, header)
           acc  == CheckinLoop(UserOrder,
                     [ users |-> notify.users, emailed |-> 0, considered |-> 0,
                       sent |-> {}, failed |-> {} ], now, delivered)
       IN /\ auth # "ok" => delivered = {}
          /\ notify' =
               IF auth # "ok"
               THEN [notify EXCEPT
                       !.now = now, !.calls = @ + 1,
                       !.last = [NoRun EXCEPT !.op = "run", !.status = auth,
                                              !.header = header,
                                              !.pre_users = notify.users,
                                              !.pre_mails = Len(notify.mails)]]
               ELSE [notify EXCEPT
                       !.now = now, !.calls = @ + 1,
                       !.users = acc.users,
                       !.mails = @ \o MailsOf(acc, now),
                       !.last = [ op |-> "run", status |-> "ok",
                                  header |-> header,
                                  emailed |-> acc.emailed,
                                  considered |-> acc.considered,
                                  sent |-> acc.sent, failed |-> acc.failed,
                                  pre_users |-> notify.users,
                                  pre_mails |-> Len(notify.mails) ]]
  /\ UNCHANGED <<chatVars, gate, hist, race, gem, built, callVars>>

\* the file does not exist yet, or holds users who were active at hour 0
InitNotify ==
  /\ ChatIdle
  /\ gate = NoGate /\ hist = Idle /\ race = Idle /\ gem = Idle /\ built = Idle /\ CallsIdle
  /\ \E token \in {"", "secret"},
        users \in [Users -> { AbsentUser,
                              [AbsentUser EXCEPT !.present = TRUE, !.email = "a@b.c",
                                                 !.last_active_utc = 0] }] :
       notify = [ SCHEDULER_TOKEN |-> token, users |-> users, now |-> 0,
                  calls |-> 0, mails |-> << >>, last |-> NoRun ]

NextNotify == record_activity \/ run_checkins

SpecNotify == InitNotify /\ [][NextNotify]_vars

(* ------------------- maybe_capture_confidence alone -------------------- *)
\* messages that are a number, a number "/ 10", or neither
CaptureTexts ==
  { <<"0">>, <<"1">>, <<"7">>, <<"10">>, <<"11">>, <<"99">>, <<"100">>,
    <<"0", "/", "10">>, <<"3", "/", "10">>, <<"11", "/", "10">>,
    <<"7", "/", "5">>, <<"7", "of", "10">>, <<"soon">>, << >> }

\* the confidence of a topic before the call: never set, or set by earlier
\* messages
ConfBefore ==
  { NoConf, [baseline |-> 3, last |-> 3], [baseline |-> 3, last |-> 10] }

NoCapture ==
  [ st |-> DEFAULT_STATE, user_text |-> << >>, topic_key |-> "work_focus",
    called |-> FALSE, saved |-> FALSE, st_after |-> DEFAULT_STATE ]

call_maybe_capture_confidence ==
  /\ ~capture.called
  /\ LET r == maybe_capture_confidence(capture.st, capture.user_text,
                                       capture.topic_key)
     IN capture' = [capture EXCEPT !.called = TRUE, !.saved = r.saved,
                                   !.st_after = r.st]
  /\ UNCHANGED <<chatVars, gate, hist, race, gem, built, notify, extracted,
                 edited, statefile, reply, disk, overlap, shape>>

InitCapture ==
  /\ ChatIdle
  /\ gate = NoGate /\ hist = Idle /\ race = Idle /\ gem = Idle /\ built = Idle
  /\ notify = Idle /\ extracted = Idle /\ edited = Idle /\ statefile = Idle /\ reply = Idle /\ disk = Idle /\ overlap = Idle /\ shape = Idle
  /\ \E text \in CaptureTexts, tk \in Topics, c \in [Topics -> ConfBefore] :
       capture = [NoCapture EXCEPT
                    !.st = [DEFAULT_STATE EXCEPT !.confidence = c],
                    !.user_text = text, !.topic_key = tk]

NextCapture == call_maybe_capture_confidence

SpecCapture == InitCapture /\ [][NextCapture]_vars

(* -------------------------- extract_bullets alone ---------------------- *)
\* values of max_items: those of the two callers (10, 5) and small ones
MaxItemsValues == {0, 1, 2, 5, 10}

NoExtract == [ text |-> << >>, max_items |-> 10, called |-> FALSE, result |-> << >> ]

call_extract_bullets ==
  /\ ~extracted.called
  /\ extracted' = [extracted EXCEPT
                     !.called = TRUE,
                     !.result = extract_bullets(extracted.text, extracted.max_items)]
  /\ UNCHANGED <<chatVars, gate, hist, race, gem, built, notify, capture, edited,
                 statefile, reply, disk, overlap, shape>>

InitBullets ==
  /\ ChatIdle
  /\ gate = NoGate /\ hist = Idle /\ race = Idle /\ gem = Idle /\ built = Idle
  /\ notify = Idle /\ capture = Idle /\ edited = Idle /\ statefile = Idle /\ reply = Idle /\ disk = Idle /\ overlap = Idle /\ shape = Idle
  /\ \E n \in 0..MaxLines, a \in LineKinds, b \in LineKinds, m \in MaxItemsValues :
       extracted = [NoExtract EXCEPT
                      !.text = [i \in 1..n |-> IF i % 2 = 1 THEN a ELSE b],
                      !.max_items = m]

NextBullets == call_extract_bullets

SpecBullets == InitBullets /\ [][NextBullets]_vars

(* ------------------- the edits of handle_plan_refine ------------------- *)
\* A task is [text, status, resources]; its text and the lines of the
\* generator's edit list are token sequences as above, with upper-case
\* letters kept.  A key is found in a text as a run of whole tokens.
MaxEditLines == 6      \* lines of the generated edit list

DoA      == << "Do", " ", "A" >>
DoB      == << "Do", " ", "B" >>
DoATwice == << "Do", " ", "A", " ", "twice" >>

\* str.lower() and str.upper() on a token
Lower(token) ==
  CASE token = "Do" -> "do" [] token = "A" -> "a" [] token = "B" -> "b"
    [] token = "Walk" -> "walk" [] token = "Zed" -> "zed"
    [] token = "CHANGE:" -> "change:" [] token = "REMOVE:" -> "remove:"
    [] token = "REORDER:" -> "reorder:" [] token = "ADD:" -> "add:"
    [] token = "Move" -> "move" [] OTHER -> token

Upper(token) ==
  CASE Lower(token) = "change:" -> "CHANGE:" [] Lower(token) = "remove:" -> "REMOVE:"
    [] Lower(token) = "reorder:" -> "REORDER:" [] Lower(token) = "add:" -> "ADD:"
    [] OTHER -> token

LowerSeq(t) == [i \in 1..Len(t) |-> Lower(t[i])]

\* key and key in t.get("text", "").lower(), for a key already lower-cased
Contains(text, key) == key # << >> /\ Occurs(key, LowerSeq(text))

\* the first task, in list order, whose text contains the key; 0 for none
FirstMatch(tasks, key) ==
  IF \E i \in 1..Len(tasks) : Contains(tasks[i].text, key)
  THEN CHOOSE i \in 1..Len(tasks) :
         /\ Contains(tasks[i].text, key)
         /\ \A j \in 1..(i - 1) : ~Contains(tasks[j].text, key)
  ELSE 0

\* tasks.pop(i)
PopAt(tasks, i) ==
  [j \in 1..(Len(tasks) - 1) |-> IF j < i THEN tasks[j] ELSE tasks[j + 1]]

NewTask(topic_key, text) ==
  [ text |-> text, status |-> "todo",
    resources |-> pick_resources(topic_key, LowerSeq(text), 3) ]

\* add_task of handle_plan_refine, on tasks that are records
AddTask(tasks, text, topic_key) ==
  IF text # << >> /\ Len(tasks) < 30
  THEN Append(tasks, NewTask(topic_key, text)) ELSE tasks

remove_match_every(tasks, text) ==
  SelectSeq(tasks, LAMBDA t : ~Contains(t.text, LowerSeq(Strip(text))))

remove_match(tasks, text) ==
  LET i == FirstMatch(tasks, LowerSeq(Strip(text)))
  IN IF i = 0 THEN tasks ELSE PopAt(tasks, i)

\* re.split(r"\s*->\s*", old_new, maxsplit=1): << >> when there is no "->"
SplitArrow(old_new) ==
  IF ~InSeq("->", old_new) THEN << >>
  ELSE LET i == CHOOSE k \in 1..Len(old_new) :
                  /\ old_new[k] = "->"
                  /\ \A j \in 1..(k - 1) : old_new[j] # "->"
       IN << Strip(SubSeq(old_new, 1, i - 1)),
             Strip(SubSeq(old_new, i + 1, Len(old_new))) >>

change_match_every(tasks, old_new, topic_key) ==
  LET m == SplitArrow(old_new)
  IN IF m = << >> THEN tasks
     ELSE IF m[1] = << >> \/ m[2] = << >> THEN tasks
     ELSE [i \in 1..Len(tasks) |->
             IF Contains(tasks[i].text, LowerSeq(m[1]))
             THEN [tasks[i] EXCEPT
                     !.text = m[2],
                     !.resources = pick_resources(topic_key, LowerSeq(m[2]), 3)]
             ELSE tasks[i]]

change_match(tasks, old_new, topic_key) ==
  LET m == SplitArrow(old_new)
  IN IF m = << >> THEN tasks
     ELSE IF m[1] = << >> \/ m[2] = << >> THEN tasks
     ELSE LET i == FirstMatch(tasks, LowerSeq(m[1]))
          IN IF i = 0 THEN tasks
             ELSE [tasks EXCEPT
                     ![i].text = m[2],
                     ![i].resources = pick_resources(topic_key, LowerSeq(m[2]), 3)]

reorder_hint(tasks, text) ==
  LET i == FirstMatch(tasks, LowerSeq(Strip(text)))
  IN IF i = 0 THEN tasks ELSE << tasks[i] >> \o PopAt(tasks, i)

\* one pass of the loop over the edits
ApplyEdit(tasks, e, topic_key) ==
  LET e2   == Strip(e)
      verb == IF e2 = << >> THEN "" ELSE Upper(Head(e2))
      rest == IF e2 = << >> THEN << >> ELSE Strip(Tail(e2))
  IN CASE verb = "ADD:"     -> AddTask(tasks, rest, topic_key)
       [] verb = "REMOVE:"  -> remove_match(tasks, rest)
       [] verb = "CHANGE:"  -> change_match(tasks, rest, topic_key)
       [] verb = "REORDER:" -> reorder_hint(tasks, rest)
       [] OTHER             -> tasks

\* the task list before the first edit and after every edit
RECURSIVE EditSteps(_, _, _)
EditSteps(tasks, edits, topic_key) ==
  IF edits = << >> THEN << tasks >>
  ELSE << tasks >> \o EditSteps(ApplyEdit(tasks, Head(edits), topic_key),
                                Tail(edits), topic_key)

EditLines ==
  { << "CHANGE:", " ", "Do", " ", "A", " ", "->", " ", "Do", " ", "A", " ", "twice" >>,
    << "-", " ", "change:", " ", "do", " ", "a", " ", "->", " ", "Walk" >>,
    << "CHANGE:", " ", "Do", " ", "A" >>,
    << "CHANGE:", " ", "->", " ", "Walk" >>,
    << "CHANGE:", " ", "Do", " ", "A", " ", "->" >>,
    << "CHANGE:", " ", "Zed", " ", "->", " ", "Walk" >>,
    << "REMOVE:", " ", "do", " ", "a" >>,
    << "REMOVE:" >>,
    << "REMOVE:", " ", "Zed" >>,
    << "1.", " ", "remove:", " ", "A" >>,
    << "REORDER:", " ", "Do", " ", "B" >>,
    << "REORDER:", " ", "twice" >>,
    << "ADD:", " ", "Walk" >>,
    << "ADD:" >>,
    << "Move", " ", "it" >> }

\* texts of the generator from which build_plan_object makes the tasks
DraftTexts ==
  { << >>, << DoA, DoB >>, << DoB, DoA, DoATwice >> }

\* numbers of steps in the "plan" list of a JSON reply to handle_chat
ReplySteps == {1, 29, 30, 31}

NoEdited ==
  [ stage |-> "start", topic_key |-> "work_focus", tasks |-> << >>,
    raw |-> << >>, edits |-> << >>, steps |-> << >> ]

\* handle_plan_draft: the tasks of build_plan_object
draft_creates_plan ==
  /\ edited.stage = "start"
  /\ \E ideas \in DraftTexts :
       edited' = [edited EXCEPT !.stage = "planned",
                                !.tasks = PlanTasks(edited.topic_key, ideas)]
  /\ UNCHANGED <<chatVars, gate, hist, race, gem, built, notify, capture,
                 extracted, statefile, reply, disk, overlap, shape>>

\* handle_chat: one task per step of the reply, without resources
chat_creates_plan ==
  /\ edited.stage = "start"
  /\ \E n \in ReplySteps :
       edited' = [edited EXCEPT
                    !.stage = "planned",
                    !.tasks = [i \in 1..n |->
                                 [ text |-> IF i = 2 THEN DoA ELSE DoB,
                                   status |-> "todo", resources |-> << >> ]]]
  /\ UNCHANGED <<chatVars, gate, hist, race, gem, built, notify, capture,
                 extracted, statefile, reply, disk, overlap, shape>>

\* handle_plan_refine on the active plan, for the edit list `raw` of the
\* generator
refine_turn ==
  /\ edited.stage = "planned"
  /\ \E n \in 0..MaxEditLines, a \in EditLines, b \in EditLines :
       LET raw   == [i \in 1..n |-> IF i % 2 = 1 THEN a ELSE b]
           edits == extract_bullets(raw, 5)
           steps == EditSteps(edited.tasks, edits, edited.topic_key)
       IN edited' = [edited EXCEPT !.stage = "refined", !.raw = raw,
                                   !.edits = edits, !.steps = steps,
                                   !.tasks = steps[Len(steps)]]
  /\ UNCHANGED <<chatVars, gate, hist, race, gem, built, notify, capture,
                 extracted, statefile, reply, disk, overlap, shape>>

InitRefine ==
  /\ ChatIdle
  /\ gate = NoGate /\ hist = Idle /\ race = Idle /\ gem = Idle /\ built = Idle
  /\ notify = Idle /\ capture = Idle /\ extracted = Idle /\ statefile = Idle /\ reply = Idle /\ disk = Idle /\ overlap = Idle /\ shape = Idle
  /\ \E t \in Topics : edited = [NoEdited EXCEPT !.topic_key = t]

NextRefine == draft_creates_plan \/ chat_creates_plan \/ refine_turn

SpecRefine == InitRefine /\ [][NextRefine]_vars

(* ------------------- handle_chat and the model's reply ----------------- *)
\* A JSON document is one token; json_value is what json.loads makes of it.
JsonDocs ==
  { "{message}", "{message,question}", "{message,plan:[2]}", "{message,plan:[]}",
    "{message,plan:str}", "[1]" }

\* the code fence of Markdown: three backquotes, with and without "json"
FenceJson == "<fence>json"
Fence     == "<fence>"

NoList == [islist |-> FALSE, items |-> << >>]

json_value(doc) ==
  LET dict(question, plan) ==
        [ isdict |-> TRUE, message |-> << "Hi" >>, question |-> question,
          plan |-> plan ]
  IN CASE doc = "{message}"          -> dict(<< >>, NoList)
       [] doc = "{message,question}" -> dict(<< "Why?" >>, NoList)
       [] doc = "{message,plan:[2]}" -> dict(<< >>, [islist |-> TRUE, items |-> LLMTasks])
       [] doc = "{message,plan:[]}"  -> dict(<< >>, [islist |-> TRUE, items |-> << >>])
       [] doc = "{message,plan:str}" -> dict(<< >>, NoList)
       [] OTHER -> [ isdict |-> FALSE, message |-> << >>, question |-> << >>,
                     plan |-> NoList ]

\* json.loads: one document and nothing else, or ValueError
json_loads(text) ==
  IF Len(text) = 1 /\ text[1] \in JsonDocs
  THEN [ok |-> TRUE, value |-> json_value(text[1])]
  ELSE [ok |-> FALSE, value |-> json_value("")]

\* the two replace calls that take the code fences out, and strip()
clean_json(raw_response) ==
  Strip(SelectSeq(raw_response, LAMBDA c : c \notin {FenceJson, Fence}))

\* what the generate_content call hands to gemini_text, before its strip()
ApiTexts ==
  { << "Sure", " ", "thing" >>,
    << " ", "Sure", " ", "thing", "\n" >>,
    << " " >>,
    << FenceJson, "\n", "{", "oops", "\n", Fence >>,
    << "Here", " ", "is", " ", "a", " ", "plan:", "\n", "-", " ", "Do A" >>,
    << "{message}", " ", "{message}" >>,
    << "{message}" >>, << "{message,question}" >>,
    << FenceJson, "\n", "{message,plan:[2]}", "\n", Fence >>,
    << "{message,plan:[2]}" >>, << "{message,plan:[]}" >>,
    << "{message,plan:str}" >>, << "[1]" >> }

\* the dict handle_chat falls back to when json.loads raised
Fallback_cleaned(raw_response) ==
  [ isdict |-> TRUE, message |-> clean_json(raw_response), question |-> << >>,
    plan |-> NoList ]

Fallback(raw_response) ==
  [ isdict |-> TRUE, message |-> raw_response, question |-> << >>,
    plan |-> NoList ]

NoChatOut == [raised |-> FALSE, text |-> << >>, ui_mode |-> "none", plan |-> NoId]

\* handle_chat from the reply of gemini_text on: parse, fields, plan, response
handle_chat_parsing(st, topic_key, raw_response) ==
  LET parsed        == json_loads(clean_json(raw_response))
      response_data == IF parsed.ok THEN parsed.value ELSE Fallback(raw_response)
      full_text     == Strip(response_data.message \o << "\n", "\n" >>
                               \o response_data.question)
      plan_steps    == response_data.plan
      plan_id       == NewPlanId(st)
      plan_obj      == [ id |-> plan_id, topic |-> topic_key,
                         title |-> <<"Plan for", topic_key>>,
                         tasks |-> plan_steps.items ]
  IN IF ~response_data.isdict
     THEN [st |-> st, out |-> [NoChatOut EXCEPT !.raised = TRUE]]
     ELSE IF plan_steps.islist /\ Len(plan_steps.items) > 0
     THEN [ st  |-> [st EXCEPT !.plans = PutPlan(@, plan_obj),
                               !.plan_build.active_plan_id = plan_id,
                               !.plan_build.topic = topic_key],
            out |-> [raised |-> FALSE, text |-> full_text, ui_mode |-> "CHAT",
                     plan |-> plan_id] ]
     ELSE [ st  |-> st,
            out |-> [raised |-> FALSE, text |-> full_text, ui_mode |-> "CHAT",
                     plan |-> NoId] ]

\* the states handle_chat is called on: those of GateStates, without a plan
\* and with one plan stored
ReplyStates ==
  GateStates \cup
  { [s EXCEPT !.plans = PutPlan(@, build_plan_object(DEFAULT_STATE, t, "items"))] :
      s \in GateStates, t \in Topics }

NoReply ==
  [ called |-> FALSE, st |-> DEFAULT_STATE, topic_key |-> NoTopic,
    raw_response |-> << >>, st_after |-> DEFAULT_STATE, out |-> NoChatOut ]

call_handle_chat ==
  /\ ~ reply.called
  /\ LET h == handle_chat_parsing(reply.st, reply.topic_key, reply.raw_response)
     IN reply' = [reply EXCEPT !.called = TRUE, !.st_after = h.st, !.out = h.out]
  /\ UNCHANGED <<chatVars, gate, hist, race, gem, built, notify, capture,
                 extracted, edited, statefile, disk, overlap, shape>>

InitReply ==
  /\ ChatIdle
  /\ gate = NoGate /\ hist = Idle /\ race = Idle /\ gem = Idle /\ built = Idle
  /\ notify = Idle /\ capture = Idle /\ extracted = Idle /\ edited = Idle
  /\ statefile = Idle /\ disk = Idle /\ overlap = Idle /\ shape = Idle
  /\ \E st \in ReplyStates, tk \in Topics \cup {"general"}, text \in ApiTexts :
       reply = [NoReply EXCEPT !.st = st, !.topic_key = tk,
                               !.raw_response = Strip(text), !.st_after = st]

NextReply == call_handle_chat

SpecReply == InitReply /\ [][NextReply]_vars

(* ------------------- user_state.json as a request finds it ------------- *)
\* The file is missing, holds bytes that are no JSON, or holds a JSON object.
\* Of the object the model keeps the entry of the one user: the chat keys
\* (bucket) and the history, stored or not; the entry holds no "followup"
\* key, so no follow-up is due.  `data` of a file that is no JSON is what
\* the file held before it was damaged; no code can read it.
FileKinds == {"missing", "garbage", "json"}

\* {}: no entry for the user, which _get_user_bucket turns into an empty one
NoHistory == [stored |-> FALSE, list |-> << >>]

EmptyAllState == [bucket |-> StoredBucket({}, DEFAULT_STATE), history |-> NoHistory]

FileContents ==
  { [bucket |-> b, history |-> h] : b \in InitBuckets,
      h \in {NoHistory, [stored |-> TRUE, list |-> OldHistory(2)]} }

\* the two append calls of chat_endpoint reach the file's list if the entry
\* holds one; the list cut to 60 entries is bound to the copy only
SavedHistory(h) ==
  IF h.stored
  THEN [h EXCEPT !.list = @ \o << Entry("user", 1, "none"),
                                  Entry("assistant", 1, "none") >>]
  ELSE h

_safe_read_json_unguarded(f, fallback) ==
  IF f.kind = "missing" THEN fallback ELSE f.data

_safe_read_json(f, fallback) ==
  IF f.kind = "missing" THEN fallback
  ELSE IF f.kind = "garbage" THEN fallback
  ELSE f.data

_load_all_state(f) == _safe_read_json(f, EmptyAllState)

NoFileOut == [status |-> "none", chat |-> NoResp, messages |-> << >>]

NoStatefile ==
  [ phase |-> "start", file |-> [kind |-> "missing", data |-> EmptyAllState],
    op |-> "none", message |-> << >>, topic |-> NoTopic, llm |-> "plain",
    coach |-> FALSE, out |-> NoFileOut,
    after |-> [kind |-> "missing", data |-> EmptyAllState] ]

\* POST /chat on the file: load, turn, save unless the handler raised
file_chat_endpoint ==
  /\ statefile.phase = "start"
  /\ \E message \in Messages, topic \in ReqTopics, llm \in LLMOutcomes :
       LET all_state == _load_all_state(statefile.file)
           t         == Turn(all_state.bucket, message, topic, llm)
           raised    == t.out = Raised
       IN statefile' =
            [statefile EXCEPT
               !.phase = "done", !.op = "chat", !.message = message,
               !.topic = topic, !.llm = llm,
               !.out = [ status |-> IF raised THEN "error" ELSE "ok",
                         chat |-> Response(t, IF raised THEN "error" ELSE "ok"),
                         messages |-> << >> ],
               !.after = IF raised THEN statefile.file
                         ELSE [ kind |-> "json",
                                data |-> [ bucket |-> _save_all_state(all_state.bucket, t.st),
                                           history |-> SavedHistory(all_state.history) ] ]]
  /\ UNCHANGED <<chatVars, gate, hist, race, gem, built, notify, capture,
                 extracted, edited, reply, disk, overlap, shape>>

\* GET /chat/history on the file: the loaded history; with a coach the loaded
\* state is written back
file_get_history ==
  /\ statefile.phase = "start"
  /\ \E coach \in BOOLEAN :
       LET all_state == _load_all_state(statefile.file)
       IN statefile' =
            [statefile EXCEPT
               !.phase = "done", !.op = "history", !.coach = coach,
               !.out = [ status |-> "ok", chat |-> NoResp,
                         messages |-> all_state.history.list ],
               !.after = IF coach THEN [kind |-> "json", data |-> all_state]
                         ELSE statefile.file]
  /\ UNCHANGED <<chatVars, gate, hist, race, gem, built, notify, capture,
                 extracted, edited, reply, disk, overlap, shape>>

InitFile ==
  /\ ChatIdle
  /\ gate = NoGate /\ hist = Idle /\ race = Idle /\ gem = Idle /\ built = Idle
  /\ notify = Idle /\ capture = Idle /\ extracted = Idle /\ edited = Idle
  /\ reply = Idle /\ disk = Idle /\ overlap = Idle /\ shape = Idle
  /\ \E kind \in FileKinds, data \in FileContents :
       /\ kind = "missing" => data = EmptyAllState
       /\ statefile = [NoStatefile EXCEPT !.file = [kind |-> kind, data |-> data],
                                          !.after = [kind |-> kind, data |-> data]]

NextFile == file_chat_endpoint \/ file_get_history

SpecFile == InitFile /\ [][NextFile]_vars

(* ---------------- _safe_write_json by several requests ----------------- *)
\* The data directory as the operating system keeps it: two names, the state
\* file and its .tmp, each bound to a file or to none, and the files' bytes.
\* A document is written in MaxChunks write calls; chunk k of the document of
\* writer w is [w |-> w, k |-> k].  Every writer uses the same .tmp name.
MaxChunks == 2

Writers == {1, 2, 3}

NoFile == 0

\* bytes a write left unset below its offset
Hole == [w |-> -1, k |-> 0]

Doc(w) == [k \in 1..MaxChunks |-> [w |-> w, k |-> k]]

NoWriter == [pc |-> "start", fd |-> NoFile, off |-> 0]

\* the content of a file after `chunk` was written at offset `off`
WriteAt(content, off, chunk) ==
  [i \in 1..(IF Len(content) > off + 1 THEN Len(content) ELSE off + 1) |->
     IF i = off + 1 THEN chunk
     ELSE IF i <= Len(content) THEN content[i] ELSE Hole]

\* variant: every writer has a .tmp name of its own
TmpName_own(w) == w

\* path.with_suffix(".tmp"): one name for all writers
TmpName(w) == 0

\* tmp.write_text(...) opens the .tmp file for writing: the file is created,
\* or the file that has the name is cut to length 0
open_tmp(w) ==
  /\ disk.writer[w].pc = "start"
  /\ LET name == TmpName(w)
         old  == disk.tmp[name]
         new  == Len(disk.files) + 1
     IN IF old = NoFile
        THEN disk' = [disk EXCEPT !.files = Append(@, << >>),
                                  !.tmp[name] = new,
                                  !.writer[w] = [pc |-> "writing", fd |-> new, off |-> 0]]
        ELSE disk' = [disk EXCEPT !.files[old] = << >>,
                                  !.writer[w] = [pc |-> "writing", fd |-> old, off |-> 0]]
  /\ UNCHANGED <<chatVars, gate, hist, race, gem, built, notify, capture,
                 extracted, edited, statefile, reply, overlap, shape>>

\* one write call on the open file, at the writer's own offset; the file is
\* closed after the last one
write_chunk(w) ==
  /\ disk.writer[w].pc = "writing"
  /\ LET me == disk.writer[w]
     IN disk' = [disk EXCEPT
          !.files[me.fd] = WriteAt(@, me.off, [w |-> w, k |-> me.off + 1]),
          !.writer[w].off = me.off + 1,
          !.writer[w].pc = IF me.off + 1 = MaxChunks THEN "closed" ELSE "writing"]
  /\ UNCHANGED <<chatVars, gate, hist, race, gem, built, notify, capture,
                 extracted, edited, statefile, reply, overlap, shape>>

\* tmp.replace(path): the state file's name is bound to the file that has
\* the .tmp name, which loses that name; FileNotFoundError without such a file
replace_tmp(w) ==
  /\ disk.writer[w].pc = "closed"
  /\ LET name == TmpName(w)
     IN IF disk.tmp[name] = NoFile
        THEN disk' = [disk EXCEPT !.writer[w].pc = "raised"]
        ELSE disk' = [disk EXCEPT !.path = disk.tmp[name],
                                  !.tmp[name] = NoFile,
                                  !.writer[w].pc = "saved"]
  /\ UNCHANGED <<chatVars, gate, hist, race, gem, built, notify, capture,
                 extracted, edited, statefile, reply, overlap, shape>>

\* the state file holds the document of an earlier request (writer 0)
InitWrite ==
  /\ ChatIdle
  /\ gate = NoGate /\ hist = Idle /\ race = Idle /\ gem = Idle /\ built = Idle
  /\ notify = Idle /\ capture = Idle /\ extracted = Idle /\ edited = Idle
  /\ statefile = Idle /\ reply = Idle /\ overlap = Idle /\ shape = Idle
  /\ disk = [ files  |-> << Doc(0) >>,
              path   |-> 1,
              tmp    |-> [n \in {0} \cup Writers |-> NoFile],
              writer |-> [w \in Writers |-> NoWriter] ]

NextWrite == \E w \in Writers : open_tmp(w) \/ write_chunk(w) \/ replace_tmp(w)

SpecWrite == InitWrite /\ [][NextWrite]_vars

(* ------------- /notify/activity during /notify/run-checkins ------------ *)
\* run_checkins reads users_activity.json at its start and writes all users
\* at its end; both endpoints are plain functions, which the server runs in
\* threads, so a record_activity call can fall between the two.  The run is
\* an authorised one.  `recorded` is, per user, the last_active_utc that the
\* last completed record_activity call wrote; a run keeps the users that
\* called record_activity while it ran, the users it mailed, and `recorded`
\* as it was when the run saved.
NoCheckinRun ==
  [ pc |-> "idle", now |-> NoTs, db |-> [u \in Users |-> AbsentUser],
    pinged |-> {}, sent |-> {}, recorded |-> [u \in Users |-> NoTs] ]

\* POST /notify/activity, from _load_users to _save_users
overlap_record_activity ==
  /\ overlap.calls < MaxNotifyCalls
  /\ \E delta \in {0, 6}, user_id \in Users :
       LET now == overlap.now + delta
           u   == overlap.users[user_id]
       IN overlap' = [overlap EXCEPT
            !.now = now, !.calls = @ + 1,
            !.users[user_id] = [u EXCEPT !.present = TRUE, !.email = "a@b.c",
                                         !.last_active_utc = now],
            !.recorded[user_id] = now,
            !.run.pinged = IF overlap.run.pc = "loaded" THEN @ \cup {user_id} ELSE @]
  /\ UNCHANGED <<chatVars, gate, hist, race, gem, built, notify, capture,
                 extracted, edited, statefile, reply, disk, shape>>

\* run_checkins up to db = _load_users()
run_checkins_load ==
  /\ overlap.calls < MaxNotifyCalls
  /\ overlap.run.pc # "loaded"
  /\ \E delta \in {0, 6, 12} :
       LET now == overlap.now + delta
       IN overlap' = [overlap EXCEPT
            !.now = now, !.calls = @ + 1,
            !.run = [NoCheckinRun EXCEPT !.pc = "loaded", !.now = now,
                                         !.db = overlap.users]]
  /\ UNCHANGED <<chatVars, gate, hist, race, gem, built, notify, capture,
                 extracted, edited, statefile, reply, disk, shape>>

\* the loop over the loaded users and _save_users(db)
run_checkins_save ==
  /\ overlap.run.pc = "loaded"
  /\ \E delta \in {0, 6}, delivered \in SUBSET Users :
       LET acc == CheckinLoop(UserOrder,
                    [ users |-> overlap.run.db, emailed |-> 0, considered |-> 0,
                      sent |-> {}, failed |-> {} ], overlap.run.now, delivered)
       IN overlap' = [overlap EXCEPT
            !.now = overlap.now + delta,
            !.users = acc.users,
            !.run.pc = "saved",
            !.run.sent = acc.sent,
            !.run.recorded = overlap.recorded]
  /\ UNCHANGED <<chatVars, gate, hist, race, gem, built, notify, capture,
                 extracted, edited, statefile, reply, disk, shape>>

InitOverlap ==
  /\ ChatIdle
  /\ gate = NoGate /\ hist = Idle /\ race = Idle /\ gem = Idle /\ built = Idle
  /\ notify = Idle /\ capture = Idle /\ extracted = Idle /\ edited = Idle
  /\ statefile = Idle /\ reply = Idle /\ disk = Idle /\ shape = Idle
  /\ \E users \in [Users -> { AbsentUser,
                              [AbsentUser EXCEPT !.present = TRUE, !.email = "a@b.c",
                                                 !.last_active_utc = 0] }] :
       overlap = [ users |-> users,
                   recorded |-> [u \in Users |-> users[u].last_active_utc],
                   now |-> 0, calls |-> 0, run |-> NoCheckinRun ]

NextOverlap == overlap_record_activity \/ run_checkins_load \/ run_checkins_save

SpecOverlap == InitOverlap /\ [][NextOverlap]_vars

(* ======================================================================= *)
(*                               Properties                                *)
(* ======================================================================= *)
Done      == resp.status = "ok"
Routed    == resp.status \in {"ok", "error"}
PlansFor(st, topic_key) == {i \in DOMAIN st.plans : st.plans[i].topic = topic_key}
PlansKept(before, after) ==
  \A i \in DOMAIN before.plans :
     i \in DOMAIN after.plans /\ after.plans[i] = before.plans[i]

\* C1: in a turn that has an active plan for its topic and whose message is a
\* plan request without new-plan wording, the route is CHAT or REFINE, never
\* DRAFT, and the plans of the topic and active_plan_id are the same after the
\* turn as before it, whatever the LLM replied.
C1_PlanRequestKeepsPlan ==
  ( /\ Done
    /\ has_active_plan(pre, resp.topic_key)
    /\ plan_requested(req.message)
    /\ ~ explicit_new_plan_request(req.message) )
  => /\ resp.route \in {<<"CHAT", NoStep>>, <<"PLAN_BUILD", "REFINE">>}
     /\ PlansFor(mem, resp.topic_key) = PlansFor(pre, resp.topic_key)
     /\ mem.plan_build.active_plan_id = pre.plan_build.active_plan_id

\* C2: after a completed /chat request the stored state of the user, as the
\* next request loads it, equals the in-memory state at the end of the request.
C2_SavedEqualsMemory ==
  Done => _ensure_state_shape(bucket) = mem

\* C3: a plan request (no skip, no new-plan wording) without an active plan
\* for the topic is routed to PLAN_BUILD/DISCOVERY, and before a plan is
\* drafted each of the two discovery questions is emitted at most once.
C3_DiscoveryAtMostTwoQuestions ==
  /\ ( /\ Routed
       /\ ~ has_active_plan(pre, resp.topic_key)
       /\ plan_requested(req.message)
       /\ ~ skip_requested(req.message)
       /\ ~ explicit_new_plan_request(req.message) )
     => resp.route = <<"PLAN_BUILD", "DISCOVERY">>
  /\ \A q \in 1..Len(DISCOVERY_QUESTIONS) : asked[q] <= 1

\* C4: after a plan request, the first free-text message is stored as
\* discovery_answers.deadline, the second as discovery_answers.target, and
\* the turn of the second one drafts a plan and makes it active.
C4_TwoAnswersThenDraft ==
  /\ (Done /\ script.phase = 2)
     => mem.plan_build.discovery_answers.deadline = req.message
  /\ (Done /\ script.phase = 3)
     => /\ mem.plan_build.discovery_answers.deadline = script.answer1
        /\ mem.plan_build.discovery_answers.target = req.message
        /\ resp.created_plan_id # NoId
        /\ mem.plan_build.active_plan_id = resp.created_plan_id

\* C5: a completed turn whose message has new-plan wording and no skip wording
\* is routed to PLAN_BUILD/DRAFT and creates a plan with a fresh id for the
\* turn's topic, which becomes the active plan, whatever locked and the former
\* active plan were; every plan held before is still held, unchanged.
C5_NewPlanAlwaysDrafts ==
  ( /\ Done
    /\ explicit_new_plan_request(req.message)
    /\ ~ skip_requested(req.message) )
  => /\ resp.route = <<"PLAN_BUILD", "DRAFT">>
     /\ resp.created_plan_id # NoId
     /\ resp.created_plan_id \notin PlanIdsInUse(pre)
     /\ resp.created_plan_id \in DOMAIN mem.plans
     /\ mem.plans[resp.created_plan_id].id = resp.created_plan_id
     /\ mem.plans[resp.created_plan_id].topic = resp.topic_key
     /\ mem.plan_build.active_plan_id = resp.created_plan_id
     /\ PlansKept(pre, mem)

\* C5 witness: a new plan was drafted over a locked active plan of the topic
C5_Witness ==
  /\ Done
  /\ explicit_new_plan_request(req.message)
  /\ ~ skip_requested(req.message)
  /\ pre.plan_build.locked
  /\ has_active_plan(pre, resp.topic_key)
  /\ pre.plan_build.active_plan_id \in DOMAIN pre.plans
  /\ Cardinality(DOMAIN mem.plans) = 2

\* the draft handler returned (either of its two replies)
DraftReached == resp.text \in {"already have a plan", "starter plan"}

\* the user's active plan is for another topic and no plan is for this one
OnlyPlanIsForOtherTopic ==
  /\ pre.plan_build.active_plan_id \in DOMAIN pre.plans
  /\ pre.plans[pre.plan_build.active_plan_id].topic # resp.topic_key
  /\ pre.plan_build.topic # resp.topic_key
  /\ PlansFor(pre, resp.topic_key) = {}

\* C6: when the draft handler is reached by a plan request (no new-plan
\* wording) for a topic other than the one of the user's active plan, a plan
\* for the new topic is created and becomes active, the old plan is kept
\* unchanged, and the reply is not "you already have a plan for this topic".
C6_TopicSwitchCreatesPlan ==
  ( /\ Done
    /\ DraftReached
    /\ OnlyPlanIsForOtherTopic
    /\ plan_requested(req.message)
    /\ ~ explicit_new_plan_request(req.message) )
  => /\ resp.text # "already have a plan"
     /\ resp.created_plan_id \in DOMAIN mem.plans
     /\ mem.plans[resp.created_plan_id].topic = resp.topic_key
     /\ mem.plan_build.active_plan_id = resp.created_plan_id
     /\ PlansKept(pre, mem)

\* C7: should_create_new_plan is true exactly when no active plan id is
\* stored, or plan_build.topic differs from the given topic, or the text has
\* new-plan wording; the state it was called on is left as it was.
C7_GateIff ==
  gate.called =>
    /\ gate.result <=>
         \/ gate.st.plan_build.active_plan_id = NoId
         \/ gate.st.plan_build.topic # gate.topic_key
         \/ \E p \in _NEW_PLAN_PATTERNS : Occurs(p, gate.user_text)
    /\ gate.st_after = gate.st

\* C7 witness: the gate was called with an active plan of the same topic and
\* no new-plan wording, and answered false
C7_Witness ==
  /\ gate.called
  /\ gate.st.plan_build.active_plan_id # NoId
  /\ gate.st.plan_build.topic = gate.topic_key
  /\ ~ gate.result

\* a message that opens with a greeting word
IsGreeting(message) == Len(message) > 0 /\ message[1] \in {"hello", "hi", "hey"}

StepAndCounterKept ==
  /\ mem.plan_build.step = pre.plan_build.step
  /\ mem.plan_build.discovery_questions_asked = pre.plan_build.discovery_questions_asked
  /\ _ensure_state_shape(bucket).plan_build.step = pre.plan_build.step
  /\ _ensure_state_shape(bucket).plan_build.discovery_questions_asked
       = pre.plan_build.discovery_questions_asked

C9_BaselineWriteOnce ==
  \A tk \in Topics :
    ( /\ Done
      /\ CarriedNumber(req.message, req.topic) # NoVal
      /\ normalize_topic_key(req.topic) = tk )
    => /\ mem.confidence[tk].last = CarriedNumber(req.message, req.topic)
       /\ mem.confidence[tk].baseline = firstNum[tk]

HasBaseline(st, topic_key) ==
  topic_key \in Topics /\ st.confidence[topic_key].baseline # NoVal

EntersPlanBuild ==
  /\ Done
  /\ resp.route \in {<<"PLAN_BUILD", "DISCOVERY">>, <<"PLAN_BUILD", "DRAFT">>}
  /\ ~ HasBaseline(mem, resp.topic_key)

C11_HistoryCapped ==
  /\ Len(LoadedHistory(hist)) <= HISTORY_CAP
  /\ hist.last.op = "history" => Len(hist.last.history) <= HISTORY_CAP
  /\ hist.last.op = "chat" =>
       LET full == hist.last.pre_history
                     \o << Entry("user", hist.now, "none"),
                           Entry("assistant", hist.now, "none") >>
       IN Len(full) > HISTORY_CAP => LoadedHistory(hist) = LastN(full, HISTORY_CAP)

\* C12: a /chat turn or /chat/history fetch that finds the follow-up due (its
\* time has passed and the user's last message is the one that scheduled it)
\* injects exactly one checkin_12h message, and the follow-up that was
\* pending is no longer pending afterwards.
C12_DueFollowupInjected ==
  (hist.last.op \in {"chat", "history"} /\ hist.last.due)
  => /\ hist.last.injected
     /\ Checkins(hist.last.history) = Checkins(hist.last.pre_history) + 1
     /\ LoadedFollowup(hist).pending_for_ts # 0

\* C13: when two /chat requests have both read the file before either wrote
\* it, the file after both writes is the copy of the request that wrote
\* second; another user's bucket is back at what it was before the two
\* requests, so the first write is discarded, for one user and for two.
C13_SecondWriteDiscardsFirst ==
  \A a, b \in Reqs :
    ( /\ race.saves = <<a, b>> /\ a # b
      /\ race.req[a].saves_seen = 0 /\ race.req[b].saves_seen = 0 )
    => /\ race.file = race.req[b].all_state
       /\ race.req[a].user # race.req[b].user
            => race.file[race.req[a].user] = race.file0[race.req[a].user]

\* both requests read first, the first writer changed its user's bucket, the
\* second writer serves another user, and the first writer's change is gone
C13_Witness ==
  \E a, b \in Reqs :
    /\ race.saves = <<a, b>> /\ a # b
    /\ race.req[a].saves_seen = 0 /\ race.req[b].saves_seen = 0
    /\ race.req[a].user # race.req[b].user
    /\ race.req[a].all_state[race.req[a].user] # race.file0[race.req[a].user]
    /\ race.file[race.req[a].user] # race.req[a].all_state[race.req[a].user]

\* a response that raised, or carried no text at all once stripped
FailedResponse(ans) ==
  \/ ans.raises
  \/ /\ Strip(ans.text) = << >>
     /\ ans.candidates = << >> \/ Strip(JoinParts(ans.candidates[1])) = << >>

\* C14: gemini_text calls the candidates in order, the configured model first
\* when it is not listed; it calls a model only after all earlier ones raised
\* or answered empty, returns the first non-empty text, raises only after
\* every candidate failed, and never returns an empty string.
C14_GeminiNeverReturnsEmpty ==
  /\ \A i \in 1..Len(gem.calls) :
       gem.calls[i].model = Candidates(gem.GEMINI_MODEL)[i]
  /\ \A i \in 1..(Len(gem.calls) - 1) : FailedResponse(gem.calls[i].resp)
  /\ gem.status = "returned" =>
       /\ gem.value # << >>
       /\ ~FailedResponse(gem.calls[Len(gem.calls)].resp)
  /\ gem.status = "raised" =>
       /\ Len(gem.calls) = Len(Candidates(gem.GEMINI_MODEL))
       /\ \A i \in 1..Len(gem.calls) : FailedResponse(gem.calls[i].resp)

\* the lines of the text that hold something besides blanks
Inked(ideas) ==
  {i \in 1..Len(ideas) : \E k \in 1..Len(ideas[i]) : ~IsSpace(ideas[i][k])}

\* C15: for every text of the generator, the empty one and one without any
\* bullet included, the plan has tasks: one per non-blank line, ten at most,
\* or the eight hardcoded ones when no line holds anything; every task is
\* "todo" and carries at most 3 resources, no URL twice.
C15_TasksNeverEmpty ==
  built.called =>
    /\ built.tasks # << >>
    /\ Len(built.tasks) = IF Inked(built.ideas) = {} THEN 8
                          ELSE Min(Cardinality(Inked(built.ideas)), 10)
    /\ Inked(built.ideas) = {} =>
         \A i \in 1..8 : built.tasks[i].text = FallbackLines[i]
    /\ \A i \in 1..Len(built.tasks) :
         /\ built.tasks[i].status = "todo"
         /\ built.tasks[i].text # << >>
         /\ Len(built.tasks[i].resources) <= 3
         /\ \A j, k \in 1..Len(built.tasks[i].resources) :
              j # k => built.tasks[i].resources[j] # built.tasks[i].resources[k]

\* a text of eleven bullets, cut to ten tasks, one of which matched four
\* catalogue entries and kept three
C15_Witness ==
  /\ built.called
  /\ Cardinality(Inked(built.ideas)) > 10
  /\ Len(built.tasks) = 10
  /\ \E i \in 1..Len(built.tasks) :
       /\ Len(Picks(built.topic_key, built.tasks[i].text)) > 3
       /\ Len(built.tasks[i].resources) = 3

\* C16: when sending fails for a user in a run, the user's
\* last_checkin_email_utc stays as it was, every other user is still handled
\* (an eligible one is mailed), the run answers normally and `emailed` counts
\* the mails that were sent.
C16_FailedSendKeepsStamp ==
  (notify.last.op = "run" /\ notify.last.failed # {})
  => /\ notify.last.status = "ok"
     /\ \A u \in notify.last.failed :
          notify.users[u].last_checkin_email_utc
            = notify.last.pre_users[u].last_checkin_email_utc
     /\ notify.last.emailed = Cardinality(notify.last.sent)
     /\ notify.last.considered
          = Cardinality({u \in Users : notify.last.pre_users[u].present})
     /\ \A u \in Users \ notify.last.failed :
          Eligible(notify.last.pre_users[u], notify.now)
            => /\ u \in notify.last.sent
               /\ notify.users[u].last_checkin_email_utc = notify.now

\* the first user's mail failed, the second user's mail went out
C16_Witness ==
  /\ notify.last.op = "run" /\ notify.last.status = "ok"
  /\ notify.last.failed = {"u1"} /\ notify.last.sent = {"u2"}
  /\ notify.last.emailed = 1

\* C17: every mail went to a user with a stored address whose last activity
\* was at least CHECKIN_AFTER_HOURS before the run, and two mails to one
\* user are at least EMAIL_COOLDOWN_HOURS apart.
C17_InactiveAndCooledDown ==
  /\ \A i \in 1..Len(notify.mails) :
       /\ notify.mails[i].email # NoEmail
       /\ notify.mails[i].last_active_utc # NoTs
       /\ notify.mails[i].at - notify.mails[i].last_active_utc >= CHECKIN_AFTER_HOURS
  /\ \A i, j \in 1..Len(notify.mails) :
       (i < j /\ notify.mails[i].user = notify.mails[j].user)
       => notify.mails[j].at - notify.mails[i].at >= EMAIL_COOLDOWN_HOURS

\* a user was mailed twice, the second time exactly when the cooldown ended
C17_Witness ==
  \E i, j \in 1..Len(notify.mails) :
    /\ i < j /\ notify.mails[i].user = notify.mails[j].user
    /\ notify.mails[j].at - notify.mails[i].at = EMAIL_COOLDOWN_HOURS

\* C18: a run whose header is not the configured token sends no mail and
\* leaves the file as it was; it answers 500 when no token is configured and
\* 401 when a token is configured and the header is missing or different.
C18_TokenGuardsRun ==
  notify.last.op = "run" =>
    /\ notify.SCHEDULER_TOKEN = "" => notify.last.status = "500"
    /\ (notify.SCHEDULER_TOKEN # "" /\ notify.last.header # notify.SCHEDULER_TOKEN)
         => notify.last.status = "401"
    /\ (notify.SCHEDULER_TOKEN = "" \/ notify.last.header # notify.SCHEDULER_TOKEN)
         => /\ notify.users = notify.last.pre_users
            /\ Len(notify.mails) = notify.last.pre_mails
            /\ notify.last.sent = {}

\* a run without the header is refused although a user was due for a mail
C18_Witness ==
  /\ notify.last.op = "run" /\ notify.last.status = "401"
  /\ notify.last.header = NoHeader
  /\ \E u \in Users : /\ notify.last.pre_users[u].present
                      /\ Eligible(notify.last.pre_users[u], notify.now)

\* the message has refine wording and neither skip nor new-plan wording
RefineOnly(message) ==
  /\ refine_requested(message)
  /\ ~ skip_requested(message)
  /\ ~ explicit_new_plan_request(message)

\* C19: in a completed turn with refine wording, without skip and new-plan
\* wording, and with an active plan for the topic, the route is
\* PLAN_BUILD/REFINE, the active plan keeps its id and topic, plans holds the
\* same ids as before, active_plan_id is unchanged, and the response reports
\* updated_plan_id = that id and no created_plan_id.
C19_RefineInPlace ==
  (Done /\ RefineOnly(req.message) /\ has_active_plan(pre, resp.topic_key))
  => LET id == pre.plan_build.active_plan_id
     IN /\ resp.route = <<"PLAN_BUILD", "REFINE">>
        /\ DOMAIN mem.plans = DOMAIN pre.plans
        /\ mem.plan_build.active_plan_id = id
        /\ resp.updated_plan_id = id
        /\ resp.created_plan_id = NoId
        /\ id \in DOMAIN pre.plans
        /\ mem.plans[id].id = pre.plans[id].id
        /\ mem.plans[id].topic = pre.plans[id].topic

\* the message has no skip, new-plan or plan-request wording, and no refine
\* wording that meets an active plan
NoRoutingWords(message, st, topic_key) ==
  /\ ~ skip_requested(message)
  /\ ~ explicit_new_plan_request(message)
  /\ ~ plan_requested(message)
  /\ ~ (refine_requested(message) /\ has_active_plan(st, topic_key))

\* C20: a turn whose message has none of the routing wordings is routed to
\* PLAN_BUILD/DISCOVERY when the stored mode is PLAN_BUILD, the stored step
\* is DISCOVERY and fewer than two questions were asked, and to CHAT in every
\* other case.
C20_DefaultRoute ==
  (Routed /\ NoRoutingWords(req.message, pre, resp.topic_key))
  => resp.route = IF /\ pre.mode = "PLAN_BUILD"
                     /\ pre.plan_build.step = "DISCOVERY"
                     /\ pre.plan_build.discovery_questions_asked < 2
                  THEN <<"PLAN_BUILD", "DISCOVERY">>
                  ELSE <<"CHAT", NoStep>>

\* a free-text answer given in the middle of discovery goes to DISCOVERY
C20_Witness ==
  /\ Done /\ NoRoutingWords(req.message, pre, resp.topic_key)
  /\ pre.mode = "PLAN_BUILD" /\ pre.plan_build.discovery_questions_asked = 1
  /\ resp.route = <<"PLAN_BUILD", "DISCOVERY">>

\* C21: a message whose number is not between 1 and 10, or that is not a
\* number or a number "/ 10" at all, leaves metrics.confidence as it was and
\* is not reported as saved.
C21_OnlyOneToTenStored ==
  (capture.called /\ ConfidenceMatch(capture.user_text) \notin 1..10)
  => /\ ~capture.saved
     /\ capture.st_after.confidence = capture.st.confidence

\* C22: at the end of a completed /chat turn the follow-up is pending
\* FOLLOWUP_HOURS after the time of the turn, for the ts of the user message
\* the turn appended to history, whatever was pending before; where the
\* bucket holds "followup", this is also what the file holds.
C22_FollowupFollowsTurn ==
  hist.last.op = "chat" =>
    /\ hist.last.followup.pending_at = hist.now + FOLLOWUP_HOURS
    /\ hist.last.followup.pending_for_ts = hist.now
    /\ \E i \in 1..Len(hist.last.history) :
         hist.last.history[i] = Entry("user", hist.now, "none")
    /\ "followup" \in hist.keys => hist.followup = hist.last.followup

\* a second turn, before the first turn's follow-up was due, replaced it
C22_Witness ==
  /\ hist.last.op = "chat"
  /\ HistKeys \subseteq hist.keys
  /\ hist.followup.pending_for_ts = hist.now
  /\ \E i \in 1..Len(hist.history) :
       /\ hist.history[i].role = "user"
       /\ hist.history[i].ts > 0
       /\ hist.history[i].ts < hist.now
       /\ hist.now < hist.history[i].ts + FOLLOWUP_HOURS

\* the k-th line of the text, in line order, that holds a non-blank character
RECURSIVE InkedLine(_, _)
InkedLine(text, k) ==
  LET first == CHOOSE i \in Inked(text) : \A j \in Inked(text) : i <= j
  IN IF k = 1 THEN text[first]
     ELSE InkedLine([i \in 1..(Len(text) - first) |-> text[first + i]], k - 1)

VerbOf(e) == IF e = << >> THEN "" ELSE Upper(Head(e))
KeyOf(e)  == IF e = << >> THEN << >> ELSE Strip(Tail(e))

\* a CHANGE edit with a non-empty part on each side of "->"
GoodChange(e) ==
  /\ VerbOf(e) = "CHANGE:"
  /\ SplitArrow(KeyOf(e)) # << >>
  /\ SplitArrow(KeyOf(e))[1] # << >> /\ SplitArrow(KeyOf(e))[2] # << >>

\* the tasks whose text contains the key of the edit
Matches(tasks, key) ==
  {i \in 1..Len(tasks) : Contains(tasks[i].text, LowerSeq(key))}

Least(S) == CHOOSE i \in S : \A j \in S : i <= j

\* C24: a CHANGE edit "old -> new" gives the first task whose text contains
\* old the text new; every other task keeps its text, its status and its
\* place; ["Do A", "Do B"] with "CHANGE: Do A -> Do A twice" becomes
\* ["Do A twice", "Do B"].
C24_ChangeRewritesFirstMatch ==
  edited.stage = "refined" =>
    \A k \in 1..Len(edited.edits) :
      GoodChange(edited.edits[k]) =>
        LET before == edited.steps[k]
            after  == edited.steps[k + 1]
            old    == SplitArrow(KeyOf(edited.edits[k]))[1]
            new    == SplitArrow(KeyOf(edited.edits[k]))[2]
            hit    == Matches(before, old)
        IN /\ Len(after) = Len(before)
           /\ \A i \in 1..Len(before) :
                /\ after[i].status = before[i].status
                /\ after[i].text = IF hit # {} /\ i = Least(hit) THEN new
                                   ELSE before[i].text
           /\ ( /\ Len(before) = 2
                /\ before[1].text = DoA /\ before[2].text = DoB
                /\ old = DoA /\ new = DoATwice )
              => (after[1].text = DoATwice /\ after[2].text = DoB)

\* the example of the claim has been applied
C24_Witness ==
  /\ edited.stage = "refined"
  /\ Len(edited.edits) = 1 /\ GoodChange(edited.edits[1])
  /\ Len(edited.steps[1]) = 2
  /\ edited.steps[1][1].text = DoA /\ edited.steps[1][2].text = DoB
  /\ edited.tasks[1].text = DoATwice /\ edited.tasks[2].text = DoB

\* the same tasks in the same order, with task i left out
Without(tasks, i) == PopAt(tasks, i)

\* C25: a REMOVE, CHANGE or REORDER edit touches at most one task, the first
\* one in list order whose text contains the key of the edit; with no such
\* task, with a CHANGE that lacks a non-empty part on either side of "->",
\* and with a line that has no known verb, the list stays as it was; REORDER
\* puts the matched task first and keeps the order of the others.
C25_EditsTouchFirstMatchOnly ==
  edited.stage = "refined" =>
    \A k \in 1..Len(edited.edits) :
      LET e      == edited.edits[k]
          before == edited.steps[k]
          after  == edited.steps[k + 1]
          verb   == VerbOf(e)
          key    == IF verb = "CHANGE:"
                    THEN (IF GoodChange(e) THEN LowerSeq(SplitArrow(KeyOf(e))[1])
                          ELSE << >>)
                    ELSE LowerSeq(KeyOf(e))
          hit    == {i \in 1..Len(before) : Contains(before[i].text, key)}
      IN /\ verb \notin {"ADD:", "REMOVE:", "CHANGE:", "REORDER:"}
              => after = before
         /\ (verb \in {"REMOVE:", "CHANGE:", "REORDER:"} /\ hit = {})
              => after = before
         /\ (verb = "CHANGE:" /\ ~GoodChange(e)) => after = before
         /\ (verb = "REMOVE:" /\ hit # {})
              => after = Without(before, Least(hit))
         /\ (verb = "CHANGE:" /\ hit # {})
              => /\ Len(after) = Len(before)
                 /\ \A i \in 1..Len(before) : i # Least(hit) => after[i] = before[i]
         /\ (verb = "REORDER:" /\ hit # {})
              => /\ Len(after) = Len(before)
                 /\ after[1] = before[Least(hit)]
                 /\ Tail(after) = Without(before, Least(hit))

\* a REORDER brought a later task to the front of a list in which a second
\* task contains the key as well, and a REMOVE took one of two matching tasks
C25_Witness ==
  /\ edited.stage = "refined"
  /\ Len(edited.edits) = 2
  /\ VerbOf(edited.edits[1]) = "REORDER:" /\ VerbOf(edited.edits[2]) = "REMOVE:"
  /\ edited.steps[2] # edited.steps[1]
  /\ Len(edited.steps[3]) = Len(edited.steps[2]) - 1
  /\ Cardinality(Matches(edited.steps[2], KeyOf(edited.edits[2]))) = 2

\* C26: a refine turn applies at most 5 edits, an ADD edit appends a task
\* only to a plan of fewer than 30 tasks, and no plan, however it was made,
\* holds more than 30 tasks.
C26_AtMostThirtyTasks ==
  /\ Len(edited.edits) <= 5
  /\ \A k \in 1..Len(edited.edits) :
       Len(edited.steps[k + 1]) > Len(edited.steps[k])
         => /\ VerbOf(edited.edits[k]) = "ADD:"
            /\ Len(edited.steps[k]) < 30
            /\ Len(edited.steps[k + 1]) = Len(edited.steps[k]) + 1
  /\ Len(edited.tasks) <= 30

\* C28: a reply of the model to a CHAT turn that is no JSON is returned as
\* it is, as the coach message; no plan is created, plans and
\* plan_build.active_plan_id stay as they were, and handle_chat returns.
C28_UnparsableReplyIsTheMessage ==
  (reply.called /\ ~json_loads(clean_json(reply.raw_response)).ok) =>
    /\ ~reply.out.raised
    /\ reply.out.text = reply.raw_response
    /\ reply.out.ui_mode = "CHAT"
    /\ reply.out.plan = NoId
    /\ reply.st_after.plans = reply.st.plans
    /\ reply.st_after.plan_build.active_plan_id = reply.st.plan_build.active_plan_id

\* broken JSON inside a code fence came back, fence included, for a user
\* who has an active plan
C28_Witness ==
  /\ reply.called
  /\ InSeq(FenceJson, reply.raw_response)
  /\ ~json_loads(clean_json(reply.raw_response)).ok
  /\ reply.st.plan_build.active_plan_id # NoId
  /\ DOMAIN reply.st.plans # {}
  /\ reply.out.text = reply.raw_response

\* what the request of statefile gives on a file that holds the JSON text {}
OnEmptyState ==
  LET t      == Turn(EmptyAllState.bucket, statefile.message, statefile.topic,
                     statefile.llm)
      raised == t.out = Raised
  IN IF statefile.op = "chat"
     THEN [ status |-> IF raised THEN "error" ELSE "ok",
            chat |-> Response(t, IF raised THEN "error" ELSE "ok"),
            messages |-> << >>,
            saved |-> [ bucket |-> _save_all_state(EmptyAllState.bucket, t.st),
                        history |-> NoHistory ] ]
     ELSE [ status |-> "ok", chat |-> NoResp, messages |-> << >>,
            saved |-> EmptyAllState ]

\* C27: with user_state.json missing or not JSON, /chat and /chat/history
\* answer as they do for a user without any stored state, write what they
\* write for such a user, and raise only where the call of the model raised.
C27_BadFileIsEmptyState ==
  (statefile.phase = "done" /\ statefile.file.kind \in {"missing", "garbage"}) =>
    /\ statefile.out.status = OnEmptyState.status
    /\ statefile.out.chat = OnEmptyState.chat
    /\ statefile.out.messages = OnEmptyState.messages
    /\ statefile.out.status = "error"
         => (statefile.op = "chat" /\ statefile.llm = "error")
    /\ statefile.after # statefile.file
         => statefile.after = [kind |-> "json", data |-> OnEmptyState.saved]

\* a damaged file that once held a discovery in progress: the plan request
\* was answered with the first question again, and history came back empty
C27_Witness ==
  /\ statefile.phase = "done"
  /\ statefile.file.kind = "garbage"
  /\ statefile.file.data.bucket.plan_build.discovery_questions_asked = 1
  /\ statefile.file.data.history.stored
  /\ \/ statefile.op = "history" /\ statefile.out.messages = << >>
     \/ /\ statefile.op = "chat" /\ statefile.out.status = "ok"
        /\ statefile.out.chat.route = <<"PLAN_BUILD", "DISCOVERY">>

\* an active plan id that refers to a stored plan goes with the topic of
\* that plan
TopicOfActivePlan(st) ==
  LET id == st.plan_build.active_plan_id
  IN (id # NoId /\ id \in DOMAIN st.plans)
       => st.plan_build.topic = st.plans[id].topic

\* the router's test holds for a topic only with a plan of that topic
ActivePlanIsOfTopic(st) ==
  LET id == st.plan_build.active_plan_id
  IN \A topic_key \in Topics \cup {"general"} :
       (has_active_plan(st, topic_key) /\ id \in DOMAIN st.plans)
         => st.plans[id].topic = topic_key

\* C29: in the state a /chat turn ends with, and in the state the next
\* request loads, plan_build.topic is the topic of the plan that
\* plan_build.active_plan_id refers to; so has_active_plan(state, topic) is
\* true only for a plan created for that topic.
C29_ActivePlanTopicAgrees ==
  /\ TopicOfActivePlan(mem)
  /\ TopicOfActivePlan(_ensure_state_shape(bucket))
  /\ ActivePlanIsOfTopic(_ensure_state_shape(bucket))

\* C30: in the state a request loads from the file, plan_build.active_plan_id
\* is unset or is the key of a stored plan whose id is that key.
C30_NoDanglingActivePlan ==
  LET st == _ensure_state_shape(bucket)
      id == st.plan_build.active_plan_id
  IN id # NoId => (id \in DOMAIN st.plans /\ st.plans[id].id = id)

\* C31: the state a completed /chat turn ends with has mode CHAT or
\* PLAN_BUILD; PLAN_BUILD only with step DISCOVERY and a discovery question
\* as the reply; a turn that was routed to CHAT, or that reached the draft or
\* the refine handler, ends with mode CHAT.
C31_ModeAtEndOfTurn ==
  resp.status = "ok" =>
    /\ mem.mode \in {"CHAT", "PLAN_BUILD"}
    /\ mem.mode = "PLAN_BUILD"
         => (mem.plan_build.step = "DISCOVERY" /\ IsQuestion(resp.text))
    /\ ( \/ resp.route[1] = "CHAT"
         \/ resp.route[2] \in {"DRAFT", "REFINE"}
         \/ ~IsQuestion(resp.text) )
       => mem.mode = "CHAT"

\* a turn routed to discovery went on to the draft handler, which found the
\* plan of the topic: the router had set PLAN_BUILD, the turn ends in CHAT
C31_Witness ==
  /\ resp.status = "ok"
  /\ resp.route = <<"PLAN_BUILD", "DISCOVERY">>
  /\ resp.text = "already have a plan"
  /\ mem.mode = "CHAT"

\* the turn added a plan / changed the tasks of a plan it found / changed
\* a confidence entry
PlanAdded    == DOMAIN mem.plans # DOMAIN pre.plans
PlanEdited   == \E id \in DOMAIN pre.plans : mem.plans[id] # pre.plans[id]
ConfidenceChanged == mem.confidence # pre.confidence

\* C32: the effects of a /chat response say what the turn did: created_plan_id
\* is the id of the new plan exactly when the turn added a plan,
\* updated_plan_id is set exactly when the turn edited a plan that existed,
\* saved_confidence is true exactly when the turn changed metrics.confidence.
C32_EffectsAreFaithful ==
  resp.status = "ok" =>
    /\ resp.created_plan_id # NoId <=> PlanAdded
    /\ resp.created_plan_id # NoId
         => resp.created_plan_id \in DOMAIN mem.plans \ DOMAIN pre.plans
    /\ resp.updated_plan_id # NoId <=> PlanEdited
    /\ resp.saved_confidence <=> ConfidenceChanged

\* the last turn began a discovery: a plan request routed to DISCOVERY, made
\* when a plan had been created already or when the discovery before it was
\* for another topic
DiscoveryBegins ==
  /\ resp.status = "ok"
  /\ resp.route = <<"PLAN_BUILD", "DISCOVERY">>
  /\ plan_requested(req.message)
  /\ \/ pre.plan_build.active_plan_id # NoId
     \/ pre.plan_build.topic \notin {NoTopic, resp.topic_key}

NoAnswers == [deadline |-> NoText, target |-> NoText]

\* C33: a discovery that begins after a plan was created, or for another
\* topic than the discovery before it, starts with no question asked and no
\* answer stored: the turn asks the first question, and no stored answer is
\* the plan request itself.
C33_DiscoveryStartsFresh ==
  DiscoveryBegins =>
    /\ pre.plan_build.discovery_questions_asked = 0
    /\ pre.plan_build.discovery_answers = NoAnswers
    /\ resp.text = DISCOVERY_QUESTIONS[1]
    /\ mem.plan_build.discovery_answers = NoAnswers

\* C34: a /chat turn in which every model failed ends with an error and
\* leaves the file as it was: the state the next request loads is the state
\* this turn loaded, without the confidence value the turn captured and
\* without its changes to plan_build.
C34_FailedTurnWritesNothing ==
  resp.status = "error" =>
    /\ resp.text = Raised.text
    /\ _ensure_state_shape(bucket) = pre

\* the failed turn had changed plan_build in memory, for a user whose
\* stored entry holds that key
C34_Witness ==
  /\ resp.status = "error"
  /\ "plan_build" \in bucket.keys
  /\ mem.plan_build # pre.plan_build
  /\ _ensure_state_shape(bucket) = pre

\* C35: while requests save concurrently, user_state.json holds at every
\* moment a whole document that one request wrote, and no save raises.
C35_StateFileAlwaysWhole ==
  /\ \E w \in {0} \cup Writers : disk.files[disk.path] = Doc(w)
  /\ \A w \in Writers : disk.writer[w].pc # "raised"

\* C36: the stored last_active_utc of a user is never older than the value
\* the last completed /notify/activity call recorded for that user, also when
\* a run of /notify/run-checkins overlaps the call; and a run that no call
\* overlapped mails only users whose recorded activity is at least
\* CHECKIN_AFTER_HOURS old.
C36_ActivityNeverRolledBack ==
  /\ \A u \in Users :
       overlap.recorded[u] # NoTs
         => overlap.users[u].last_active_utc >= overlap.recorded[u]
  /\ (overlap.run.pc = "saved" /\ overlap.run.pinged = {})
       => \A u \in overlap.run.sent :
            overlap.run.now - overlap.run.recorded[u] >= CHECKIN_AFTER_HOURS

(* --------------- requests of several users, one at a time -------------- *)
\* user_state.json holds one entry per user id.  Each request is served from
\* its load to its save before the next one starts.
MaxRequests == 3

\* if user_id not in all_state: all_state[user_id] = {}; return all_state[user_id]
_get_user_bucket(all_state, user_id) ==
  IF user_id \in DOMAIN all_state THEN all_state[user_id]
  ELSE StoredBucket({}, DEFAULT_STATE)

\* all_state when the request saves it: the entry of user_id holds the
\* request's bucket, every other entry is as loaded
SavedAllState_every(all_state, user_id, b) ==
  [u \in DOMAIN all_state \cup {user_id} |-> b]

SavedAllState(all_state, user_id, b) ==
  [u \in DOMAIN all_state \cup {user_id} |->
     IF u = user_id THEN b ELSE all_state[u]]

NoServed == [op |-> "none", user |-> "u1", saved |-> FALSE, before |-> << >>]

\* POST /chat of one user: load, turn, save unless the handler raised
alone_chat_endpoint ==
  /\ race.served < MaxRequests
  /\ \E u \in Users, message \in RaceMessages, topic \in Topics,
        llm \in LLMOutcomes :
       LET all_state  == race.file
           user_state == _get_user_bucket(all_state, u)
           t          == Turn(user_state, message, topic, llm)
           raised     == t.out = Raised
       IN race' = [ file   |-> IF raised THEN race.file
                               ELSE SavedAllState(all_state, u,
                                      _save_all_state(user_state, t.st)),
                    served |-> race.served + 1,
                    last   |-> [ op |-> "chat", user |-> u, saved |-> ~raised,
                                 before |-> race.file ] ]
  /\ UNCHANGED <<chatVars, gate, hist, gem, built, notify, callVars>>

\* GET /chat/history of one user: with a coach the loaded state, the user's
\* entry included, is saved
alone_get_history ==
  /\ race.served < MaxRequests
  /\ \E u \in Users, coach \in BOOLEAN :
       LET all_state  == race.file
           user_state == _get_user_bucket(all_state, u)
       IN race' = [ file   |-> IF coach
                               THEN SavedAllState(all_state, u, user_state)
                               ELSE race.file,
                    served |-> race.served + 1,
                    last   |-> [ op |-> "history", user |-> u, saved |-> coach,
                                 before |-> race.file ] ]
  /\ UNCHANGED <<chatVars, gate, hist, gem, built, notify, callVars>>

InitAlone ==
  /\ ChatIdle
  /\ gate = NoGate /\ hist = Idle /\ gem = Idle /\ built = Idle /\ notify = Idle /\ CallsIdle
  /\ \E d \in SUBSET Users :
       \E f \in [d -> { StoredBucket(TopKeys, DEFAULT_STATE),
                        StoredBucket({"plan_build"}, DEFAULT_STATE),
                        StoredBucket(TopKeys, MidDiscovery("work_focus")) }] :
         race = [ file |-> f, served |-> 0, last |-> NoServed ]

NextAlone == alone_chat_endpoint \/ alone_get_history

SpecAlone == InitAlone /\ [][NextAlone]_vars

\* the entry of user v in a state file, or that the file has none
EntryOf(all_state, v) ==
  IF v \in DOMAIN all_state THEN <<all_state[v]>> ELSE << >>

\* C37: a /chat or /chat/history request of one user, served alone on a
\* readable state file, leaves the stored entry of every other user as it
\* was: present with the same content, or absent.
C37_OtherUsersUntouched ==
  race.last.op # "none" =>
    \A v \in Users \ {race.last.user} :
      EntryOf(race.file, v) = EntryOf(race.last.before, v)

\* a request that saved a changed entry for its own user while the file held
\* an entry of another user who had begun discovery
C37_Witness ==
  /\ race.last.op = "chat" /\ race.last.saved
  /\ EntryOf(race.file, race.last.user) # EntryOf(race.last.before, race.last.user)
  /\ \E v \in Users \ {race.last.user} :
       /\ v \in DOMAIN race.file
       /\ race.file[v].plan_build.discovery_questions_asked > 0
       /\ race.file[v] = race.last.before[v]

(* ------------------- _ensure_state_shape on JSON dicts ----------------- *)
\* Here a dict is a function from its keys, so that a stored dict can lack
\* any of its keys; a list is a sequence.  The rows of a stored history are
\* dicts, as chat_endpoint writes them.
MaxRows == 2

EmptyDict == [k \in {} |-> NoVal]

DEFAULT_STATE_dict ==
  [ mode       |-> "CHAT",
    history    |-> << >>,
    metrics    |-> [confidence |-> EmptyDict],
    plan_build |-> [ step |-> "DISCOVERY",
                     topic |-> NoTopic,
                     discovery_questions_asked |-> 0,
                     discovery_answers |-> EmptyDict,
                     active_plan_id |-> NoId,
                     locked |-> FALSE ],
    plans      |-> EmptyDict,
    followup   |-> [ pending_at |-> NoTs, pending_for_ts |-> NoTs,
                     last_sent_at |-> NoTs ] ]

\* d.setdefault(k, v)
SetDefault(d, k, v) ==
  IF k \in DOMAIN d THEN d
  ELSE [x \in DOMAIN d \cup {k} |-> IF x = k THEN v ELSE d[x]]

\* for k, v in defaults.items(): d.setdefault(k, v)
FillDefaults_overwriting(d, defaults) ==
  [k \in DOMAIN d \cup DOMAIN defaults |->
     IF k \in DOMAIN defaults THEN defaults[k] ELSE d[k]]

FillDefaults(d, defaults) ==
  [k \in DOMAIN d \cup DOMAIN defaults |->
     IF k \in DOMAIN d THEN d[k] ELSE defaults[k]]

NoKind == "none"

\* merged = copy of DEFAULT_STATE; merged[k] = v for k, v in state.items();
\* then the setdefault calls in the order of the code
ensure_state_shape_dict(state) ==
  LET merged == [k \in DOMAIN DEFAULT_STATE_dict \cup DOMAIN state |->
                   IF k \in DOMAIN state THEN state[k] ELSE DEFAULT_STATE_dict[k]]
      m1 == SetDefault(merged, "history", << >>)
      m2 == SetDefault(m1, "metrics", [confidence |-> EmptyDict])
      m3 == [m2 EXCEPT !["metrics"] = SetDefault(@, "confidence", EmptyDict)]
      m4 == SetDefault(m3, "plan_build", EmptyDict)
      m5 == [m4 EXCEPT !["plan_build"] = FillDefaults(@, DEFAULT_STATE_dict.plan_build)]
      m6 == SetDefault(m5, "plans", EmptyDict)
      m7 == SetDefault(m6, "followup", EmptyDict)
      m8 == [m7 EXCEPT !["followup"] = FillDefaults(@, DEFAULT_STATE_dict.followup)]
  IN [m8 EXCEPT !["history"] =
        [i \in 1..Len(@) |-> SetDefault(@[i], "kind", NoKind)]]

\* what a stored state holds under a key it has
StoredValues ==
  [ mode       |-> "PLAN_BUILD",
    metrics    |-> [confidence |-> [work_focus |-> 7]],
    plan_build |-> [ step |-> "REFINE",
                     topic |-> "work_focus",
                     discovery_questions_asked |-> 2,
                     discovery_answers |-> [target |-> <<"ship">>],
                     active_plan_id |-> 1,
                     locked |-> TRUE ],
    plans      |-> [p1 |-> <<"Draft", "Review">>],
    followup   |-> [pending_at |-> 6, pending_for_ts |-> 0, last_sent_at |-> 3],
    metadata   |-> [last_coach_name |-> "Ava"] ]

\* the part of dict d under the keys ks
Restrict(d, ks) == [k \in ks |-> d[k]]

\* rows of a stored history: written before and after rows had a kind
StoredRows ==
  { [role |-> "user", text |-> <<"hello">>, ts |-> 0],
    [role |-> "assistant", text |-> <<"hi">>, ts |-> 0, kind |-> "followup"] }

Histories == UNION { [1..n -> StoredRows] : n \in 0..MaxRows }

NoShape == [state |-> EmptyDict, pc |-> "start", once |-> EmptyDict, twice |-> EmptyDict]

call_ensure_state_shape ==
  /\ shape.pc = "start"
  /\ shape' = [shape EXCEPT !.pc = "once",
                            !.once = ensure_state_shape_dict(shape.state)]
  /\ UNCHANGED <<chatVars, gate, hist, race, gem, built, notify, capture,
                 extracted, edited, statefile, reply, disk, overlap>>

\* the function applied to its own result
call_ensure_state_shape_again ==
  /\ shape.pc = "once"
  /\ shape' = [shape EXCEPT !.pc = "twice",
                            !.twice = ensure_state_shape_dict(shape.once)]
  /\ UNCHANGED <<chatVars, gate, hist, race, gem, built, notify, capture,
                 extracted, edited, statefile, reply, disk, overlap>>

InitShape ==
  /\ ChatIdle
  /\ gate = NoGate /\ hist = Idle /\ race = Idle /\ gem = Idle /\ built = Idle
  /\ notify = Idle /\ capture = Idle /\ extracted = Idle /\ edited = Idle
  /\ statefile = Idle /\ reply = Idle /\ disk = Idle /\ overlap = Idle
  /\ \E top \in SUBSET (DOMAIN StoredValues \cup {"history"}),
        pb \in SUBSET DOMAIN StoredValues.plan_build,
        fu \in SUBSET DOMAIN StoredValues.followup,
        mt \in SUBSET {"confidence"},
        h \in Histories :
       /\ "plan_build" \notin top => pb = {}
       /\ "followup" \notin top => fu = {}
       /\ "metrics" \notin top => mt = {}
       /\ "history" \notin top => h = << >>
       /\ shape = [NoShape EXCEPT !.state =
            [k \in top |->
               CASE k = "history"    -> h
                 [] k = "plan_build" -> Restrict(StoredValues.plan_build, pb)
                 [] k = "followup"   -> Restrict(StoredValues.followup, fu)
                 [] k = "metrics"    -> Restrict(StoredValues.metrics, mt)
                 [] OTHER            -> StoredValues[k]]]

NextShape == call_ensure_state_shape \/ call_ensure_state_shape_again

SpecShape == InitShape /\ [][NextShape]_vars

\* dict d has every key of dict e, with the same value
HasAll(d, e) == \A k \in DOMAIN e : k \in DOMAIN d /\ d[k] = e[k]

\* the keys whose values the function completes
Repaired == {"history", "metrics", "plan_build", "followup"}

\* C38: the result of _ensure_state_shape has every top-level key of the
\* default state and every default key of plan_build and followup; a key the
\* input holds, at the top level, in metrics, plan_build or followup, or in
\* a history row, keeps its value; and the function applied to its own
\* result returns an equal state.
C38_ShapeRepair ==
  shape.pc # "start" =>
    LET state  == shape.state
        merged == shape.once
    IN /\ DOMAIN DEFAULT_STATE_dict \subseteq DOMAIN merged
       /\ DOMAIN DEFAULT_STATE_dict.plan_build \subseteq DOMAIN merged.plan_build
       /\ DOMAIN DEFAULT_STATE_dict.followup \subseteq DOMAIN merged.followup
       /\ HasAll(merged, Restrict(state, DOMAIN state \ Repaired))
       /\ \A k \in (DOMAIN state \cap Repaired) \ {"history"} :
            HasAll(merged[k], state[k])
       /\ "history" \in DOMAIN state =>
            /\ Len(merged.history) = Len(state.history)
            /\ \A i \in 1..Len(state.history) :
                 HasAll(merged.history[i], state.history[i])
       /\ shape.pc = "twice" => shape.twice = shape.once

\* a stored state whose plan_build holds only the step and that has no
\* followup, repaired and repaired again
C38_Witness ==
  /\ shape.pc = "twice"
  /\ "plan_build" \in DOMAIN shape.state
  /\ DOMAIN shape.state.plan_build = {"step"}
  /\ "followup" \notin DOMAIN shape.state
  /\ shape.once.plan_build.step = "REFINE"
  /\ shape.once.plan_build.topic = NoTopic
  /\ shape.once.followup.pending_at = NoTs

====
